---- MODULE Spec2Model ----
(***************************************************************************)
(* Model of the live-location coordination engine of beThere:              *)
(*   server/routes.ts      the WebSocket gateway: handshake, registry,     *)
(*                         message dispatch, location update pipeline,     *)
(*                         broadcast                                        *)
(*   shared schema         wsMessageSchema (zod)                           *)
(*   storage               MemStorage and PrismaStorage, both implementing *)
(*                         IStorage; routes.ts imports ./prisma-storage    *)
(*   client/lib/haversine  calculateDistance                               *)
(*                                                                         *)
(* Conventions.                                                            *)
(*  - A nullable JavaScript value is a set: {} is null/undefined, {v} is   *)
(*    the value v.  Truthy(x) is JavaScript truthiness of a nullable       *)
(*    number.                                                              *)
(*  - Coordinates are integers in millidegrees near the equator; distances *)
(*    are integers in metres (0.1 km = 100).                               *)
(*  - Time is in seconds.                                                  *)
(*  - Every `await` is a scheduling point: a handler is a record with a pc *)
(*    naming the await it is suspended on.  A MemStorage method runs its   *)
(*    body synchronously when called (it contains no await before its      *)
(*    effect); a PrismaStorage method performs its effect while the caller *)
(*    is suspended.                                                        *)
(*  - Outbound payload timestamps (new Date().toISOString()) are left out  *)
(*    of the message records.                                              *)
(***************************************************************************)
EXTENDS Integers, Sequences, FiniteSets, TLC

\* ---------------------------------------------------------------- bounds
MaxSockets == 2           \* Spec: connection attempts
MaxMessages == 2          \* Spec: inbound messages
MaxTicks == 1             \* Spec: clock advances
MaxRegistrySockets == 2   \* SpecRegistry: connection attempts
MaxAdmissionSockets == 3  \* SpecAdmission: connection attempts
MaxAdmissionMessages == 1 \* SpecAdmission: inbound messages
MaxFanoutSockets == 3     \* SpecFanout: connection attempts
MaxFanoutMessages == 1    \* SpecFanout: inbound messages
MaxChannelSockets == 1    \* SpecChannel: connection attempts
MaxChannelMessages == 1   \* SpecChannel: inbound messages
MaxLifecycleSockets == 2  \* SpecLifecycle: connection attempts
MaxLifecycleMessages == 2 \* SpecLifecycle: inbound messages
MaxLiveSockets == 2       \* SpecLive: connection attempts
MaxLiveMessages == 1      \* SpecLive: inbound messages
MaxClientSockets == 6     \* SpecReconnect: WebSockets the hook creates
MaxEventIdChanges == 1    \* SpecReconnect: changes of the event shown
MaxCleanups == 1          \* SpecReconnect: cleanups of the hook
MaxRuns == 3              \* SpecPage: recomputations started
MaxRefetches == 2         \* SpecPage: results of the event query
MaxPageTicks == 3
MaxCalls == 3
MaxRequests == 2
MaxDepsChanges == 2
MaxReporterTicks == 4
MaxBroadcastSockets == 3
MaxBroadcastMessages == 1
MaxDeleteSockets == 2
MaxDeleteRequests == 2         \* SpecPage: clock advances

\* ------------------------------------------------------- nullable values
None == {}
Some(v) == {v}
Val(x) == CHOOSE v \in x : TRUE
Truthy(x) == x # {} /\ x # {0}

Null == "null"

\* ------------------------------------------------------------- universe
Users == {"A", "B"}
EventE == "E1"
Positions == {<<0, 2>>, <<2, 2>>}
EventLocations == {<<None, None>>, <<Some(5), Some(5)>>}
Etas == {0, 7}
UrlEventIds == {Null, EventE}

\* A token is the sequence of its parts; <<>> is an absent or empty token
\* parameter (both falsy in JavaScript).
Tokens ==
  { <<>>, <<"forged">>, <<"expired">>, <<"jwtA">>, <<"jwtB">>, <<"Bearer ", "jwtA">> }

\* jsonwebtoken: verify(token, JWT_SECRET) returns the payload of a token
\* signed with the secret and not expired, and throws otherwise.
JwtVerify(t) ==
  IF t = <<"jwtA">> THEN Some("A")
  ELSE IF t = <<"jwtB">> THEN Some("B")
  ELSE None

\* ------------------------------------------------------------- haversine
\* Math.sqrt rounded down: the r with r * r <= n < (r + 1) * (r + 1).
RECURSIVE ISqrtBetween(_, _, _)
ISqrtBetween(n, lo, hi) ==
  IF hi - lo <= 1 THEN lo
  ELSE LET mid == (lo + hi) \div 2
       IN IF mid * mid <= n THEN ISqrtBetween(n, mid, hi) ELSE ISqrtBetween(n, lo, mid)
RECURSIVE ISqrtAbove(_, _)
ISqrtAbove(n, hi) == IF hi * hi > n THEN hi ELSE ISqrtAbove(n, 2 * hi)
ISqrt(n) == ISqrtBetween(n, 0, ISqrtAbove(n, 1))

\* One millidegree of arc on a sphere of radius 6371 km, in metres.
MetresPerMilliDegree == 111

\* calculateDistance on millidegree grid points near the equator, where
\* cos(lat) is 1 to the precision kept and the haversine reduces to the
\* length of the chord; metres, rounded down.
calculateDistance(lat1, lon1, lat2, lon2) ==
  LET dLat == lat2 - lat1
      dLon == lon2 - lon1
  IN ISqrt(MetresPerMilliDegree * MetresPerMilliDegree * (dLat * dLat + dLon * dLon))

MovementThresholdM == 100
MovementWindowS == 30

\* The clock advances by one movement window at a time.
TickSeconds == MovementWindowS

\* ------------------------------------------------------ inbound messages
\* What a client can put on the wire.  raw: "text" is not JSON, "null" is
\* the JSON value null, "object" is a JSON object.  shape gives the JSON
\* type of each key of data ("absent" when the key is missing).
Fields ==
  {"eventId", "lat", "lng", "timestamp", "participant", "participantId",
   "eta", "distance", "isMoving"}

Shape(present) ==
  [f \in Fields |-> IF f \in DOMAIN present THEN present[f] ELSE "absent"]

Msg(raw, type, present, pos) ==
  [raw |-> raw, type |-> type, shape |-> Shape(present),
   eventId |-> EventE, lat |-> pos[1], lng |-> pos[2],
   claimedId |-> "B"]    \* the identity in data.participantId / data.participant

NoFields == [f \in {} |-> "absent"]
P0 == <<0, 0>>

LocationUpdateMsgs ==
  { Msg("object", "location_update",
        [eventId |-> "string", lat |-> "number", lng |-> "number",
         timestamp |-> "string"], p) : p \in Positions }

DocumentedLocationUpdate ==
  Msg("object", "location_update",
      [eventId |-> "string", lat |-> "number", lng |-> "number"], <<2, 2>>)

IllTypedLocationUpdate ==
  Msg("object", "location_update",
      [eventId |-> "string", lat |-> "string", lng |-> "number",
       timestamp |-> "string"], P0)

DocumentedJoined == Msg("object", "participant_joined", [eventId |-> "string"], P0)

FullJoined ==
  Msg("object", "participant_joined",
      [eventId |-> "string", participant |-> "object"], P0)

DocumentedLeft == Msg("object", "participant_left", [eventId |-> "string"], P0)

FullLeft ==
  Msg("object", "participant_left",
      [eventId |-> "string", participantId |-> "string"], P0)

PingMsg == Msg("object", "ping", NoFields, P0)
PongMsg == Msg("object", "pong", NoFields, P0)

EtaUpdatedMsg ==
  Msg("object", "eta_updated",
      [eventId |-> "string", participantId |-> "string", eta |-> "number",
       distance |-> "number", isMoving |-> "boolean"], P0)

EventDeletedMsg == Msg("object", "event_deleted", [eventId |-> "string"], P0)
UnknownTypeMsg == Msg("object", "chat", [eventId |-> "string"], P0)
NotJsonMsg == Msg("text", "", NoFields, P0)
JsonNullMsg == Msg("null", "", NoFields, P0)

InboundMessages ==
  LocationUpdateMsgs \cup
  { DocumentedLocationUpdate, IllTypedLocationUpdate, DocumentedJoined, FullJoined,
    DocumentedLeft, FullLeft, PingMsg, PongMsg, EtaUpdatedMsg, EventDeletedMsg,
    UnknownTypeMsg, NotJsonMsg, JsonNullMsg }

\* ------------------------------------------------------- wsMessageSchema
\* z.string(), z.number(), z.boolean() accept exactly that JSON type;
\* z.any() accepts everything, a missing key included; z.object ignores
\* keys it does not name.
ZString(s, f) == s[f] = "string"
ZNumber(s, f) == s[f] = "number"
ZBoolean(s, f) == s[f] = "boolean"
ZAny(s, f) == TRUE

wsMessageSchema(m) ==
  /\ m.raw = "object"
  /\ \/ /\ m.type = "location_update"
        /\ ZString(m.shape, "eventId")
        /\ ZNumber(m.shape, "lat")
        /\ ZNumber(m.shape, "lng")
        /\ ZString(m.shape, "timestamp")
     \/ /\ m.type = "participant_joined"
        /\ ZString(m.shape, "eventId")
        /\ ZAny(m.shape, "participant")
     \/ /\ m.type = "participant_left"
        /\ ZString(m.shape, "eventId")
        /\ ZString(m.shape, "participantId")
     \/ /\ m.type = "event_deleted"
        /\ ZString(m.shape, "eventId")
     \/ /\ m.type = "eta_updated"
        /\ ZString(m.shape, "eventId")
        /\ ZString(m.shape, "participantId")
        /\ ZNumber(m.shape, "eta")
        /\ ZNumber(m.shape, "distance")
        /\ ZBoolean(m.shape, "isMoving")

\* ------------------------------------------------------------------ state
VARIABLES
  storageImpl,       \* which IStorage implementation `storage` is
  events,            \* storage: eventId -> event row
  eventParticipants, \* storage: participant rows in insertion order
  nextRowId,         \* storage: next fresh participant id (randomUUID / default)
  ws,                \* one record per connection attempt, in order of arrival
  connections,       \* registry: userId -> set of sockets
  eventConnections,  \* registry: eventId -> set of sockets
  sent,              \* per socket, the messages the server sent on it
  handlers,          \* one record per ws.on('message') callback invocation
  now,               \* the clock (Date.now()), seconds
  hook,              \* the browser: the state of one useWebSocket hook
  page,              \* the browser: the ETA state of one event page
  probe,             \* a pure function of the client: its inputs and result
  gateway,           \* the browser: useGoogleDirections, its flag and calls
  reporter,          \* the browser: useLocationReporter
  requests           \* the server: DELETE /api/events/:id requests in progress

vars ==
  <<storageImpl, events, eventParticipants, nextRowId, ws, connections,
    eventConnections, sent, handlers, now, hook, page, probe, gateway, reporter,
    requests>>

serverVars ==
  <<storageImpl, events, eventParticipants, nextRowId, ws, connections,
    eventConnections, sent, handlers>>
auxVars == <<probe, gateway, reporter, requests>>
clientVars == <<hook, page, auxVars>>

storageVars == <<storageImpl, events, eventParticipants, nextRowId>>
registryVars == <<connections, eventConnections>>

Sockets == 1..Len(ws)
HandlerIds == 1..Len(handlers)

\* ---------------------------------------------------------------- storage
NewParticipant(id, eventId, userId) ==
  [id |-> id, eventId |-> eventId, userId |-> userId,
   lastLat |-> None, lastLng |-> None, lastLocationAt |-> None,
   isMoving |-> FALSE, estimatedArrival |-> None, distanceToEvent |-> None]

\* The first row of (eventId, userId) in insertion order, as a nullable index.
FindParticipant(rows, eventId, userId) ==
  LET S == {i \in 1..Len(rows) : rows[i].eventId = eventId /\ rows[i].userId = userId}
  IN IF S = {} THEN None ELSE Some(CHOOSE i \in S : \A j \in S : i <= j)

IndexOfId(rows, id) ==
  LET S == {i \in 1..Len(rows) : rows[i].id = id}
  IN IF S = {} THEN None ELSE Some(CHOOSE i \in S : TRUE)

\* getEventWithParticipants(id, userId).userParticipant, as the route reads it.
\* MemStorage returns the user's row; PrismaStorage returns undefined for a
\* user who is neither creator nor participant and otherwise an object that
\* has no userParticipant property.
MemGetEventWithParticipants(rows, id, userId) ==
  IF id \notin DOMAIN events THEN [found |-> FALSE, userParticipant |-> None]
  ELSE LET k == FindParticipant(rows, id, userId)
       IN [found |-> TRUE,
           userParticipant |-> IF k = None THEN None ELSE Some(rows[Val(k)])]

PrismaGetEventWithParticipants(rows, id, userId) ==
  IF id \notin DOMAIN events THEN [found |-> FALSE, userParticipant |-> None]
  ELSE LET isCreator == events[id].creatorId = userId
           isParticipant == FindParticipant(rows, id, userId) # None
       IN [found |-> isCreator \/ isParticipant, userParticipant |-> None]

getEventWithParticipants(rows, id, userId) ==
  IF storageImpl = "MemStorage" THEN MemGetEventWithParticipants(rows, id, userId)
  ELSE PrismaGetEventWithParticipants(rows, id, userId)

\* MemStorage.joinEvent: the existing row, or a new one.
MemJoinEvent(rows, nid, eventId, userId) ==
  IF FindParticipant(rows, eventId, userId) # None
  THEN [rows |-> rows, next |-> nid]
  ELSE [rows |-> Append(rows, NewParticipant(nid, eventId, userId)), next |-> nid + 1]

\* leaveEvent: MemStorage deletes the first row of the pair, PrismaStorage
\* (deleteMany) every row of the pair.
MemLeaveEvent(rows, eventId, userId) ==
  LET k == FindParticipant(rows, eventId, userId)
  IN IF k = None THEN rows
     ELSE [i \in 1..(Len(rows) - 1) |-> IF i < Val(k) THEN rows[i] ELSE rows[i + 1]]

PrismaLeaveEvent(rows, eventId, userId) ==
  SelectSeq(rows, LAMBDA r : ~(r.eventId = eventId /\ r.userId = userId))

\* The row written by updateParticipantLocation.
MemUpdatedParticipant(participant, lat, lng, isMoving, eta, distance, t) ==
  [participant EXCEPT
     !.lastLat = Some(lat),
     !.lastLng = Some(lng),
     !.lastLocationAt = Some(t),
     !.isMoving = isMoving,
     !.distanceToEvent = IF distance # 0 THEN Some(distance) ELSE participant.distanceToEvent,
     !.estimatedArrival = IF eta # 0 THEN Some(t + eta * 60) ELSE participant.estimatedArrival]

\* new Date(eta) is eta milliseconds after the epoch.
PrismaUpdatedParticipant(participant, lat, lng, isMoving, eta, distance, t) ==
  [participant EXCEPT
     !.lastLat = Some(lat),
     !.lastLng = Some(lng),
     !.lastLocationAt = Some(t),
     !.isMoving = isMoving,
     !.distanceToEvent = IF distance # 0 THEN Some(distance) ELSE None,
     !.estimatedArrival = IF eta # 0 THEN Some(eta \div 1000) ELSE None]

\* ------------------------------------------------------------- handshake
\* authenticateWebSocket without the signature check.
authenticateUnverified(token) ==
  LET cleanToken == IF Len(token) > 0 /\ token[1] = "Bearer " THEN Tail(token) ELSE token
  IN IF cleanToken = <<"forged">> THEN Some("A") ELSE JwtVerify(cleanToken)

authenticateWebSocket(token) ==
  LET cleanToken == IF Len(token) > 0 /\ token[1] = "Bearer " THEN Tail(token) ELSE token
  IN JwtVerify(cleanToken)

verifyClient(token) ==
  IF token # <<>> THEN authenticateWebSocket(token) # None ELSE FALSE

MapAdd(map, key, c) ==
  IF key \in DOMAIN map THEN [map EXCEPT ![key] = @ \cup {c}]
  ELSE [k \in DOMAIN map \cup {key} |-> IF k = key THEN {c} ELSE map[k]]

\* The 'close' listener's treatment of one map without the pruning of an
\* emptied set.
MapDeleteUnpruned(map, key, c) ==
  IF key # Null /\ key \in DOMAIN map THEN [map EXCEPT ![key] = @ \ {c}] ELSE map

\* The 'close' listener's treatment of one map.
MapDelete(map, key, c) ==
  IF key # Null /\ key \in DOMAIN map
  THEN IF map[key] \ {c} = {}
       THEN [k \in DOMAIN map \ {key} |-> map[k]]
       ELSE [map EXCEPT ![key] = @ \ {c}]
  ELSE map

Socket(token, userId, eventId, readyState, rejection) ==
  [token |-> token, userId |-> userId, eventId |-> eventId,
   readyState |-> readyState, errored |-> FALSE, rejection |-> rejection]

\* An outbound message.  `of` is the handler invocation that caused it (0 for
\* the greeting ping); it is bookkeeping, not part of the payload.
Out(type, eventId, participantId, of) ==
  [type |-> type, error |-> Null, eventId |-> eventId, participantId |-> participantId,
   eta |-> 0, distance |-> 0, isMoving |-> FALSE, of |-> of]

ErrorReply(error, of) == [Out(Null, Null, Null, of) EXCEPT !.error = error]

\* The 'connection' listener entering every admitted socket into the by-event
\* map, whether or not the URL carried an eventId.
OnConnectionUnguarded(token, eventId) ==
  LET c == Len(ws) + 1
      auth == authenticateWebSocket(token)
  IN IF token = <<>>
     THEN /\ ws' = Append(ws, Socket(token, Null, Null, "CLOSING", "1008 Token required"))
          /\ sent' = Append(sent, <<>>)
          /\ UNCHANGED registryVars
     ELSE IF auth = None
     THEN /\ ws' = Append(ws, Socket(token, Null, Null, "CLOSING", "1008 Invalid token"))
          /\ sent' = Append(sent, <<>>)
          /\ UNCHANGED registryVars
     ELSE /\ ws' = Append(ws, Socket(token, Val(auth), eventId, "OPEN", Null))
          /\ connections' = MapAdd(connections, Val(auth), c)
          /\ eventConnections' = MapAdd(eventConnections, eventId, c)
          /\ sent' = Append(sent, <<Out("ping", Null, Null, 0)>>)

\* The 'connection' listener for an upgrade verifyClient let through.
OnConnection(token, eventId) ==
  LET c == Len(ws) + 1
      auth == authenticateWebSocket(token)
  IN IF token = <<>>
     THEN /\ ws' = Append(ws, Socket(token, Null, Null, "CLOSING", "1008 Token required"))
          /\ sent' = Append(sent, <<>>)
          /\ UNCHANGED registryVars
     ELSE IF auth = None
     THEN /\ ws' = Append(ws, Socket(token, Null, Null, "CLOSING", "1008 Invalid token"))
          /\ sent' = Append(sent, <<>>)
          /\ UNCHANGED registryVars
     ELSE /\ ws' = Append(ws, Socket(token, Val(auth), eventId, "OPEN", Null))
          /\ connections' = MapAdd(connections, Val(auth), c)
          /\ eventConnections' =
               IF eventId # Null THEN MapAdd(eventConnections, eventId, c)
               ELSE eventConnections
          /\ sent' = Append(sent, <<Out("ping", Null, Null, 0)>>)

\* An upgrade request on /ws.  The server answers a request verifyClient
\* refuses with HTTP 401 and creates no socket for it.
HandleUpgrade(token, eventId) ==
  /\ IF verifyClient(token)
     THEN OnConnection(token, eventId)
     ELSE /\ ws' = Append(ws, Socket(token, Null, Null, "REFUSED", "401 Unauthorized"))
          /\ sent' = Append(sent, <<>>)
          /\ UNCHANGED registryVars
  /\ UNCHANGED <<storageVars, handlers, now>>
  /\ UNCHANGED clientVars

\* The peer starts the closing handshake.
ClientClose(c) ==
  /\ ws[c].readyState = "OPEN"
  /\ ws' = [ws EXCEPT ![c].readyState = "CLOSING"]
  /\ UNCHANGED <<storageVars, registryVars, sent, handlers, now>>
  /\ UNCHANGED clientVars

\* The transport fails: the 'error' listener logs, the socket is torn down.
OnError(c) ==
  /\ ws[c].readyState = "OPEN"
  /\ ws' = [ws EXCEPT ![c].readyState = "CLOSING", ![c].errored = TRUE]
  /\ UNCHANGED <<storageVars, registryVars, sent, handlers, now>>
  /\ UNCHANGED clientVars

\* The 'close' listener with only its by-user half.
CloseListenerByUser(c) ==
  /\ connections' = MapDelete(connections, ws[c].userId, c)
  /\ UNCHANGED eventConnections

\* The 'close' listener's effect on the registry.
CloseListener(c) ==
  /\ connections' = MapDelete(connections, ws[c].userId, c)
  /\ eventConnections' = MapDelete(eventConnections, ws[c].eventId, c)

\* The socket's 'close' event.
OnClose(c) ==
  /\ ws[c].readyState \in {"OPEN", "CLOSING"}
  /\ ws[c].rejection = Null
  /\ ws' = [ws EXCEPT ![c].readyState = "CLOSED"]
  /\ CloseListener(c)
  /\ UNCHANGED <<storageVars, sent, handlers, now>>
  /\ UNCHANGED clientVars

\* ------------------------------------------------------------- broadcast
\* broadcastToEvent without the exclusion of the sender.
broadcastToRoom(s, eventId, message, excludeUserId) ==
  [c \in DOMAIN s |->
     IF /\ eventId \in DOMAIN eventConnections
        /\ c \in eventConnections[eventId]
        /\ ws[c].readyState = "OPEN"
     THEN Append(s[c], message)
     ELSE s[c]]

\* broadcastToEvent iterating over every room instead of the event's.
broadcastToEveryRoom(s, eventId, message, excludeUserId) ==
  [c \in DOMAIN s |->
     IF /\ \E e \in DOMAIN eventConnections : c \in eventConnections[e]
        /\ ws[c].readyState = "OPEN"
        /\ ws[c].userId # excludeUserId
     THEN Append(s[c], message)
     ELSE s[c]]

broadcastToEvent(s, eventId, message, excludeUserId) ==
  [c \in DOMAIN s |->
     IF /\ eventId \in DOMAIN eventConnections
        /\ c \in eventConnections[eventId]
        /\ ws[c].readyState = "OPEN"
        /\ ws[c].userId # excludeUserId
     THEN Append(s[c], message)
     ELSE s[c]]

\* A reply that goes to every open connection of the sender's user.
wsSendToUser(s, c, message) ==
  [d \in DOMAIN s |->
     IF ws[d].readyState = "OPEN" /\ ws[d].userId = ws[c].userId
     THEN Append(s[d], message) ELSE s[d]]

\* ws.send: a socket that is no longer open drops the data without throwing.
wsSend(s, c, message) ==
  IF ws[c].readyState = "OPEN" THEN [s EXCEPT ![c] = Append(@, message)] ELSE s

\* ------------------------------------------------------ message handlers
Handler(c, m) ==
  [ws |-> c, msg |-> m, pc |-> "done", outcome |-> Null,
   event |-> [found |-> FALSE, locationLat |-> None, locationLng |-> None,
              userParticipant |-> None],
   recorded |-> None,      \* the sender's stored position when the event was read
   distance |-> 0, eta |-> 0, isMoving |-> FALSE,
   key |-> None,
   order |-> "in_order"]   \* bookkeeping: see Effected

\* The fields of a participant row that the location update reads.
LastReport(row) ==
  [lastLat |-> row.lastLat, lastLng |-> row.lastLng, lastLocationAt |-> row.lastLocationAt]

\* The event as the location update reads it, with the event's coordinates.
ReadEvent(rows, id, userId) ==
  LET r == getEventWithParticipants(rows, id, userId)
  IN [found |-> r.found,
      locationLat |-> IF r.found THEN events[id].locationLat ELSE None,
      locationLng |-> IF r.found THEN events[id].locationLng ELSE None,
      userParticipant |-> IF r.userParticipant = None THEN None
                          ELSE Some(LastReport(Val(r.userParticipant)))]

StoredReport(rows, id, userId) ==
  LET k == FindParticipant(rows, id, userId)
  IN IF k = None THEN None ELSE Some(LastReport(rows[Val(k)]))

\* Bookkeeping of the order of effects (storage operations and broadcasts)
\* within one channel: handler h performs an effect.  An earlier handler of
\* the same socket that has not finished is "overtaken"; an overtaken handler
\* that performs an effect afterwards is "late".
Effected(hs, h) ==
  [i \in DOMAIN hs |->
     IF i = h
     THEN [hs[i] EXCEPT !.order = IF @ = "overtaken" THEN "late" ELSE @]
     ELSE IF i < h /\ hs[i].ws = hs[h].ws /\ hs[i].pc # "done" /\ hs[i].order = "in_order"
     THEN [hs[i] EXCEPT !.order = "overtaken"]
     ELSE hs[i]]

\* Movement detection of the location update (100 m within 30 s).
DetectMovement(currentParticipant, lat, lng, t) ==
  IF /\ currentParticipant # None
     /\ Truthy(Val(currentParticipant).lastLat)
     /\ Truthy(Val(currentParticipant).lastLng)
  THEN LET cp == Val(currentParticipant)
           movementDistance == calculateDistance(lat, lng, Val(cp.lastLat), Val(cp.lastLng))
           timeDiff == IF cp.lastLocationAt # None THEN t - Val(cp.lastLocationAt) ELSE 0
       IN movementDistance > MovementThresholdM /\ timeDiff < MovementWindowS
  ELSE FALSE

\* The call storage.updateParticipantLocation(...) up to its first await.
\* MemStorage looks the row up and writes it, or joins and retries after the
\* await; PrismaStorage starts its findFirst query.
CallUpdateParticipantLocation(rows, nid, h, isMoving, eta, distance) ==
  LET m == handlers[h].msg
      userId == ws[handlers[h].ws].userId
      k == FindParticipant(rows, m.eventId, userId)
  IN IF storageImpl = "MemStorage"
     THEN IF k = None
          THEN LET j == MemJoinEvent(rows, nid, m.eventId, userId)
               IN [rows |-> j.rows, next |-> j.next, pc |-> "updateRetry"]
          ELSE [rows |-> [rows EXCEPT ![Val(k)] =
                            MemUpdatedParticipant(@, m.lat, m.lng, isMoving, eta, distance, now)],
                next |-> nid, pc |-> "updated"]
     ELSE [rows |-> rows, next |-> nid, pc |-> "updateFind"]

Done(h, outcome) == [handlers EXCEPT ![h].pc = "done", ![h].outcome = outcome]

\* handleWebSocketMessage up to its first await.
Dispatch(c, m) ==
  LET h == Len(handlers) + 1
      userId == ws[c].userId
      mem == storageImpl = "MemStorage"
      new == Handler(c, m)
  IN CASE m.type = "location_update" ->
            /\ handlers' = Append(handlers,
                 IF mem
                 THEN [new EXCEPT !.pc = "gotEvent",
                                  !.event = ReadEvent(eventParticipants, m.eventId, userId),
                                  !.recorded = StoredReport(eventParticipants, m.eventId, userId)]
                 ELSE [new EXCEPT !.pc = "getEvent"])
            /\ UNCHANGED <<eventParticipants, nextRowId, sent>>
       [] m.type = "participant_joined" ->
            LET j == MemJoinEvent(eventParticipants, nextRowId, m.eventId, userId)
            IN /\ handlers' =
                    IF mem THEN Effected(Append(handlers, [new EXCEPT !.pc = "joined"]), h)
                    ELSE Append(handlers, [new EXCEPT !.pc = "joinFind"])
               /\ eventParticipants' = IF mem THEN j.rows ELSE eventParticipants
               /\ nextRowId' = IF mem THEN j.next ELSE nextRowId
               /\ UNCHANGED sent
       [] m.type = "participant_left" ->
            /\ handlers' =
                 IF mem THEN Effected(Append(handlers, [new EXCEPT !.pc = "left"]), h)
                 ELSE Append(handlers, [new EXCEPT !.pc = "leave"])
            /\ eventParticipants' =
                 IF mem THEN MemLeaveEvent(eventParticipants, m.eventId, userId)
                 ELSE eventParticipants
            /\ UNCHANGED <<nextRowId, sent>>
       [] OTHER ->
            /\ handlers' = Append(handlers, [new EXCEPT !.outcome = "ignored"])
            /\ UNCHANGED <<eventParticipants, nextRowId, sent>>

\* The 'message' listener, up to the first await of the handler it calls.
OnMessage(c, m) ==
  /\ ws[c].readyState = "OPEN"
  /\ LET h == Len(handlers) + 1
     IN IF m.raw # "object"
        THEN \* JSON.parse throws, or message.type is read off null
             /\ handlers' = Append(handlers, [Handler(c, m) EXCEPT !.outcome = "processing_error"])
             /\ sent' = wsSend(sent, c, ErrorReply("Message processing failed", h))
             /\ UNCHANGED <<eventParticipants, nextRowId>>
        ELSE IF m.type = "ping"
        THEN /\ handlers' = Append(handlers, [Handler(c, m) EXCEPT !.outcome = "pong"])
             /\ sent' = wsSend(sent, c, Out("pong", Null, Null, h))
             /\ UNCHANGED <<eventParticipants, nextRowId>>
        ELSE IF m.type = "pong"
        THEN /\ handlers' = Append(handlers, [Handler(c, m) EXCEPT !.outcome = "ignored"])
             /\ UNCHANGED <<eventParticipants, nextRowId, sent>>
        ELSE IF ~wsMessageSchema(m)
        THEN /\ handlers' = Append(handlers, [Handler(c, m) EXCEPT !.outcome = "validation_error"])
             /\ sent' = wsSend(sent, c, ErrorReply("Invalid message format", h))
             /\ UNCHANGED <<eventParticipants, nextRowId>>
        ELSE Dispatch(c, m)
  /\ UNCHANGED <<storageImpl, events, ws, registryVars, now>>
  /\ UNCHANGED clientVars

\* The location update from the point where isMoving is computed to the call
\* of storage.updateParticipantLocation.
DetectAndUpdate(h, hs, eta, distance) ==
  LET m == handlers[h].msg
      isMoving == DetectMovement(hs[h].event.userParticipant, m.lat, m.lng, now)
      u == CallUpdateParticipantLocation(eventParticipants, nextRowId, h,
                                         isMoving, eta, distance)
      hs2 == [hs EXCEPT ![h].pc = u.pc, ![h].eta = eta, ![h].distance = distance,
                        ![h].isMoving = isMoving]
  IN /\ handlers' = IF storageImpl = "MemStorage" THEN Effected(hs2, h) ELSE hs2
     /\ eventParticipants' = u.rows
     /\ nextRowId' = u.next

\* await storage.getEventWithParticipants(eventId, userId) returns.
ResumeGetEvent(h) ==
  /\ handlers[h].pc \in {"getEvent", "gotEvent"}
  /\ LET m == handlers[h].msg
         userId == ws[handlers[h].ws].userId
         hs == IF handlers[h].pc = "getEvent"
               THEN [handlers EXCEPT
                       ![h].event = ReadEvent(eventParticipants, m.eventId, userId),
                       ![h].recorded = StoredReport(eventParticipants, m.eventId, userId)]
               ELSE handlers
         event == hs[h].event
     IN IF ~event.found
        THEN /\ handlers' = [hs EXCEPT ![h].pc = "done", ![h].outcome = "event_not_found"]
             /\ UNCHANGED <<eventParticipants, nextRowId>>
        ELSE IF Truthy(event.locationLat) /\ Truthy(event.locationLng)
        THEN /\ handlers' =
                  [hs EXCEPT ![h].pc = "eta",
                             ![h].distance = calculateDistance(m.lat, m.lng,
                                               Val(event.locationLat), Val(event.locationLng))]
             /\ UNCHANGED <<eventParticipants, nextRowId>>
        ELSE DetectAndUpdate(h, hs, 0, 0)
  /\ UNCHANGED <<storageImpl, events, ws, registryVars, sent, now>>
  /\ UNCHANGED clientVars

\* The Directions call with a failure that is thrown instead of answered by 0.
ResumeGoogleETAThrows(h, eta) ==
  /\ handlers[h].pc = "eta"
  /\ IF eta = 0
     THEN /\ handlers' = Done(h, "processing_error")
          /\ sent' = wsSend(sent, handlers[h].ws, ErrorReply("Message processing failed", h))
          /\ UNCHANGED <<eventParticipants, nextRowId>>
     ELSE /\ DetectAndUpdate(h, handlers, eta, handlers[h].distance)
          /\ UNCHANGED sent
  /\ UNCHANGED <<storageImpl, events, ws, registryVars, now>>
  /\ UNCHANGED clientVars

\* await calculateGoogleETA(...) returns: the minutes of the route, or 0 when
\* the provider fails.
ResumeGoogleETA(h, eta) ==
  /\ handlers[h].pc = "eta"
  /\ DetectAndUpdate(h, handlers, eta, handlers[h].distance)
  /\ UNCHANGED <<storageImpl, events, ws, registryVars, sent, now>>
  /\ UNCHANGED clientVars

\* MemStorage.updateParticipantLocation after its await this.joinEvent(...):
\* the recursive call.
ResumeUpdateRetry(h) ==
  /\ handlers[h].pc = "updateRetry"
  /\ LET u == CallUpdateParticipantLocation(eventParticipants, nextRowId, h,
                handlers[h].isMoving, handlers[h].eta, handlers[h].distance)
     IN /\ handlers' = Effected([handlers EXCEPT ![h].pc = u.pc], h)
        /\ eventParticipants' = u.rows
        /\ nextRowId' = u.next
  /\ UNCHANGED <<storageImpl, events, ws, registryVars, sent, now>>
  /\ UNCHANGED clientVars

\* The findFirst step of a pipeline that broadcasts without looking at the
\* row that storage.updateParticipantLocation returned.
PrismaUpdateFindFirstBroadcasts(h) ==
  /\ handlers[h].pc = "updateFind"
  /\ LET m == handlers[h].msg
         userId == ws[handlers[h].ws].userId
         k == FindParticipant(eventParticipants, m.eventId, userId)
     IN IF k = None
        THEN /\ handlers' = Done(h, "not_persisted")
             /\ sent' = broadcastToEvent(sent, m.eventId,
                          Out("eta_updated", m.eventId, userId, h), userId)
        ELSE /\ handlers' = [handlers EXCEPT ![h].pc = "updateWrite",
                                             ![h].key = Some(eventParticipants[Val(k)].id)]
             /\ UNCHANGED sent
  /\ UNCHANGED <<storageVars, ws, registryVars, now>>
  /\ UNCHANGED clientVars

\* PrismaStorage.updateParticipantLocation: prisma.eventParticipant.findFirst;
\* without a row the method returns undefined and nothing is broadcast.
PrismaUpdateFindFirst(h) ==
  /\ handlers[h].pc = "updateFind"
  /\ LET m == handlers[h].msg
         k == FindParticipant(eventParticipants, m.eventId, ws[handlers[h].ws].userId)
     IN handlers' =
          IF k = None
          THEN Done(h, "not_persisted")
          ELSE [handlers EXCEPT ![h].pc = "updateWrite",
                                ![h].key = Some(eventParticipants[Val(k)].id)]
  /\ UNCHANGED <<storageVars, ws, registryVars, sent, now>>
  /\ UNCHANGED clientVars

\* PrismaStorage.updateParticipantLocation: prisma.eventParticipant.update
\* where id; it throws when the row is gone, and the 'message' listener's
\* catch answers the sender.
PrismaUpdateWrite(h) ==
  /\ handlers[h].pc = "updateWrite"
  /\ LET m == handlers[h].msg
         i == IndexOfId(eventParticipants, Val(handlers[h].key))
     IN IF i = None
        THEN /\ handlers' = Done(h, "processing_error")
             /\ sent' = wsSend(sent, handlers[h].ws, ErrorReply("Message processing failed", h))
             /\ UNCHANGED eventParticipants
        ELSE /\ handlers' = Effected([handlers EXCEPT ![h].pc = "updated"], h)
             /\ eventParticipants' =
                  [eventParticipants EXCEPT ![Val(i)] =
                     PrismaUpdatedParticipant(@, m.lat, m.lng, handlers[h].isMoving,
                                              handlers[h].eta, handlers[h].distance, now)]
             /\ UNCHANGED sent
  /\ UNCHANGED <<storageImpl, events, nextRowId, ws, registryVars, now>>
  /\ UNCHANGED clientVars

EtaUpdated(h) ==
  [Out("eta_updated", handlers[h].msg.eventId, ws[handlers[h].ws].userId, h) EXCEPT
     !.eta = handlers[h].eta,
     !.distance = handlers[h].distance,
     !.isMoving = handlers[h].isMoving]

\* await storage.updateParticipantLocation(...) returns a row: broadcast.
ResumeUpdated(h) ==
  /\ handlers[h].pc = "updated"
  /\ handlers' = Effected(Done(h, "broadcast"), h)
  /\ sent' = broadcastToEvent(sent, handlers[h].msg.eventId, EtaUpdated(h),
                              ws[handlers[h].ws].userId)
  /\ UNCHANGED <<storageVars, ws, registryVars, now>>
  /\ UNCHANGED clientVars

\* PrismaStorage.joinEvent: prisma.eventParticipant.findFirst.
PrismaJoinFindFirst(h) ==
  /\ handlers[h].pc = "joinFind"
  /\ LET m == handlers[h].msg
         k == FindParticipant(eventParticipants, m.eventId, ws[handlers[h].ws].userId)
     IN handlers' = [handlers EXCEPT ![h].pc = IF k = None THEN "joinCreate" ELSE "joined"]
  /\ UNCHANGED <<storageVars, ws, registryVars, sent, now>>
  /\ UNCHANGED clientVars

\* PrismaStorage.joinEvent: prisma.eventParticipant.create; the foreign key
\* on event_id makes it throw for an event that does not exist.
PrismaJoinCreate(h) ==
  /\ handlers[h].pc = "joinCreate"
  /\ LET m == handlers[h].msg
         userId == ws[handlers[h].ws].userId
     IN IF m.eventId \in DOMAIN events
        THEN /\ handlers' = Effected([handlers EXCEPT ![h].pc = "joined"], h)
             /\ eventParticipants' =
                  Append(eventParticipants, NewParticipant(nextRowId, m.eventId, userId))
             /\ nextRowId' = nextRowId + 1
             /\ UNCHANGED sent
        ELSE /\ handlers' = Done(h, "processing_error")
             /\ sent' = wsSend(sent, handlers[h].ws, ErrorReply("Message processing failed", h))
             /\ UNCHANGED <<eventParticipants, nextRowId>>
  /\ UNCHANGED <<storageImpl, events, ws, registryVars, now>>
  /\ UNCHANGED clientVars

\* The participant_joined branch taking the identity from the payload.
ResumeJoinedTrustsPayload(h) ==
  /\ handlers[h].pc = "joined"
  /\ handlers' = Effected(Done(h, "broadcast"), h)
  /\ sent' = broadcastToEvent(sent, handlers[h].msg.eventId,
                Out("participant_joined", handlers[h].msg.eventId,
                    handlers[h].msg.claimedId, h),
                ws[handlers[h].ws].userId)
  /\ UNCHANGED <<storageVars, ws, registryVars, now>>
  /\ UNCHANGED clientVars

\* await storage.joinEvent(...) returns; storage.getUser(userId) finds the
\* authenticated user; broadcast.
ResumeJoined(h) ==
  /\ handlers[h].pc = "joined"
  /\ handlers' = Effected(Done(h, "broadcast"), h)
  /\ sent' = broadcastToEvent(sent, handlers[h].msg.eventId,
                Out("participant_joined", handlers[h].msg.eventId,
                    ws[handlers[h].ws].userId, h),
                ws[handlers[h].ws].userId)
  /\ UNCHANGED <<storageVars, ws, registryVars, now>>
  /\ UNCHANGED clientVars

\* PrismaStorage.leaveEvent: prisma.eventParticipant.deleteMany.
PrismaLeave(h) ==
  /\ handlers[h].pc = "leave"
  /\ handlers' = Effected([handlers EXCEPT ![h].pc = "left"], h)
  /\ eventParticipants' =
       PrismaLeaveEvent(eventParticipants, handlers[h].msg.eventId, ws[handlers[h].ws].userId)
  /\ UNCHANGED <<storageImpl, events, nextRowId, ws, registryVars, sent, now>>
  /\ UNCHANGED clientVars

\* The participant_left branch taking the connection out of its room.
ResumeLeftLeavesRoom(h) ==
  /\ handlers[h].pc = "left"
  /\ handlers' = Effected(Done(h, "broadcast"), h)
  /\ sent' = broadcastToEvent(sent, handlers[h].msg.eventId,
                Out("participant_left", handlers[h].msg.eventId,
                    ws[handlers[h].ws].userId, h),
                ws[handlers[h].ws].userId)
  /\ eventConnections' =
       MapDelete(eventConnections, ws[handlers[h].ws].eventId, handlers[h].ws)
  /\ UNCHANGED <<storageVars, ws, connections, now>>
  /\ UNCHANGED clientVars

\* await storage.leaveEvent(...) returns: broadcast.
ResumeLeft(h) ==
  /\ handlers[h].pc = "left"
  /\ handlers' = Effected(Done(h, "broadcast"), h)
  /\ sent' = broadcastToEvent(sent, handlers[h].msg.eventId,
                Out("participant_left", handlers[h].msg.eventId,
                    ws[handlers[h].ws].userId, h),
                ws[handlers[h].ws].userId)
  /\ UNCHANGED <<storageVars, ws, registryVars, now>>
  /\ UNCHANGED clientVars

\* Time passes.
Tick ==
  /\ now' = now + TickSeconds
  /\ UNCHANGED <<storageVars, ws, registryVars, sent, handlers>>
  /\ UNCHANGED clientVars

\* ------------------------------------------------------------ HTTP routes
\* deleteEvent: MemStorage deletes the participants of the event and then the
\* event; PrismaStorage deletes the event and the foreign key of
\* event_participants.event_id cascades.
DeleteEventRows(rows, id) == SelectSeq(rows, LAMBDA r : r.eventId # id)

\* DELETE /api/events/:id by user u: 404 without the event, 403 for anyone
\* but the creator; otherwise the event is deleted and event_deleted is
\* broadcast to its room, nobody excluded.
DeleteEventRoute(id, u) ==
  /\ IF id \in DOMAIN events /\ events[id].creatorId = u
     THEN /\ events' = [e \in DOMAIN events \ {id} |-> events[e]]
          /\ eventParticipants' = DeleteEventRows(eventParticipants, id)
          /\ sent' = broadcastToEvent(sent, id, Out("event_deleted", id, Null, 0), Null)
     ELSE UNCHANGED <<events, eventParticipants, sent>>
  /\ UNCHANGED <<storageImpl, nextRowId, ws, registryVars, handlers, now>>
  /\ UNCHANGED clientVars

\* DELETE /api/events/:id by user u arrives: the handler runs up to
\* `await storage.getEvent(id)`.  MemStorage reads its map in the call;
\* PrismaStorage sends a query that is answered later.
DeleteRequest(id, u) ==
  /\ requests' = Append(requests,
       IF storageImpl = "MemStorage"
       THEN [id |-> id, userId |-> u, pc |-> "gotEvent", status |-> 0,
             event |-> IF id \in DOMAIN events THEN Some(events[id].creatorId) ELSE None]
       ELSE [id |-> id, userId |-> u, pc |-> "getEvent", status |-> 0, event |-> None])
  /\ UNCHANGED <<serverVars, now, hook, page, probe, gateway, reporter>>

\* The handler of request q resumes after an await and runs to the next one:
\* the answer of getEvent; the 404 and 403 checks and the call of
\* storage.deleteEvent (MemStorage deletes in the call, PrismaStorage reads
\* the event again and then deletes it, which throws when it is gone); the
\* broadcast after deleteEvent returned, whatever it returned.
DeleteResumes(q) ==
  /\ q \in DOMAIN requests
  /\ requests[q].pc # "done"
  /\ LET r == requests[q]
         id == r.id
         mine == id \in DOMAIN events /\ events[id].creatorId = r.userId
         deleted == /\ events' = [e \in DOMAIN events \ {id} |-> events[e]]
                    /\ eventParticipants' = DeleteEventRows(eventParticipants, id)
     IN CASE r.pc = "getEvent" ->
               /\ requests' = [requests EXCEPT ![q].pc = "gotEvent",
                    ![q].event = IF id \in DOMAIN events
                                 THEN Some(events[id].creatorId) ELSE None]
               /\ UNCHANGED <<events, eventParticipants, sent>>
          [] r.pc = "gotEvent" /\ r.event = None ->
               /\ requests' = [requests EXCEPT ![q].pc = "done", ![q].status = 404]
               /\ UNCHANGED <<events, eventParticipants, sent>>
          [] r.pc = "gotEvent" /\ r.event # None /\ r.event # Some(r.userId) ->
               /\ requests' = [requests EXCEPT ![q].pc = "done", ![q].status = 403]
               /\ UNCHANGED <<events, eventParticipants, sent>>
          [] r.pc = "gotEvent" /\ r.event = Some(r.userId) ->
               IF storageImpl = "MemStorage"
               THEN /\ requests' = [requests EXCEPT ![q].pc = "deleted"]
                    /\ IF mine THEN deleted ELSE UNCHANGED <<events, eventParticipants>>
                    /\ UNCHANGED sent
               ELSE /\ requests' = [requests EXCEPT ![q].pc = "deleteGetEvent"]
                    /\ UNCHANGED <<events, eventParticipants, sent>>
          [] r.pc = "deleteGetEvent" ->
               /\ requests' = [requests EXCEPT ![q].pc =
                                 IF mine THEN "prismaDelete" ELSE "deleted"]
               /\ UNCHANGED <<events, eventParticipants, sent>>
          [] r.pc = "prismaDelete" ->
               IF id \in DOMAIN events
               THEN /\ requests' = [requests EXCEPT ![q].pc = "deleted"]
                    /\ deleted
                    /\ UNCHANGED sent
               ELSE /\ requests' = [requests EXCEPT ![q].pc = "done", ![q].status = 500]
                    /\ UNCHANGED <<events, eventParticipants, sent>>
          [] r.pc = "deleted" ->
               /\ requests' = [requests EXCEPT ![q].pc = "done", ![q].status = 200]
               /\ sent' = broadcastToEvent(sent, id, Out("event_deleted", id, Null, 0), Null)
               /\ UNCHANGED <<events, eventParticipants>>
  /\ UNCHANGED <<storageImpl, nextRowId, ws, registryVars, handlers, now>>
  /\ UNCHANGED <<hook, page, probe, gateway, reporter>>

\* POST /api/events/:id/join by user u: 404 without the event; otherwise
\* storage.joinEvent, which returns the existing row or adds one.
JoinRoute(id, u) ==
  /\ IF id \in DOMAIN events
     THEN LET j == MemJoinEvent(eventParticipants, nextRowId, id, u)
          IN /\ eventParticipants' = j.rows
             /\ nextRowId' = j.next
     ELSE UNCHANGED <<eventParticipants, nextRowId>>
  /\ UNCHANGED <<storageImpl, events, ws, registryVars, sent, handlers, now>>
  /\ UNCHANGED clientVars

\* --------------------------------------------- the browser: useWebSocket
\* One useWebSocket hook of a signed-in user (token is set).  `sockets` holds
\* the readyState of every WebSocket the hook created, `timers` every timeout
\* it set; wsRef and reconnectTimeoutRef point into them.
reconnectAttempts == 5
reconnectDelay == 3000
EventIdDelay == 500

\* reconnectDelay * Math.pow(1.5, k), in half milliseconds.
Backoff(k) == (2 * reconnectDelay * 3^k) \div 2^k

HookInit ==
  [connectionStatus |-> "disconnected", isConnected |-> FALSE,
   wsRef |-> None, sockets |-> <<>>,
   reconnectTimeoutRef |-> None, timers |-> <<>>,
   reconnectCountRef |-> 0, pingIntervalRef |-> FALSE,
   manualDisconnectRef |-> FALSE, isInitializedRef |-> FALSE,
   eventIdChanges |-> 0, cleanups |-> 0,
   failures |-> 0,   \* bookkeeping: reconnects scheduled since the last onopen
   disconnectCalled |-> FALSE]   \* bookkeeping: no connect() since the last disconnect()

Timer(callback, delay) == [callback |-> callback, delay |-> delay, state |-> "pending"]

ClearTimeout(timers, ref) ==
  IF ref # None /\ timers[Val(ref)].state = "pending"
  THEN [timers EXCEPT ![Val(ref)].state = "cleared"]
  ELSE timers

\* connect()
connect(k) ==
  IF k.wsRef # None /\ k.sockets[Val(k.wsRef)] \in {"OPEN", "CONNECTING"}
  THEN [k EXCEPT !.disconnectCalled = FALSE]
  ELSE [k EXCEPT !.connectionStatus = "connecting",
                 !.sockets = Append(@, "CONNECTING"),
                 !.wsRef = Some(Len(k.sockets) + 1),
                 !.disconnectCalled = FALSE]

\* disconnect()
disconnect(k) ==
  [k EXCEPT !.manualDisconnectRef = TRUE,
            !.timers = ClearTimeout(@, k.reconnectTimeoutRef),
            !.pingIntervalRef = FALSE,
            !.sockets = IF k.wsRef # None /\ @[Val(k.wsRef)] \in {"OPEN", "CONNECTING"}
                        THEN [@ EXCEPT ![Val(k.wsRef)] = "CLOSING"]
                        ELSE @,
            !.wsRef = None,
            !.connectionStatus = "disconnected",
            !.isConnected = FALSE,
            !.reconnectCountRef = 0,
            !.disconnectCalled = TRUE]

\* The condition under which ws.onclose schedules a reconnect, without the
\* cap on the number of attempts.
ShouldReconnectUncapped(k) == ~k.manualDisconnectRef

\* The condition under which ws.onclose schedules a reconnect.
ShouldReconnect(k) ==
  ~k.manualDisconnectRef /\ k.reconnectCountRef < reconnectAttempts

\* The effect on [token]: the initial connect.
HookMount ==
  /\ ~hook.isInitializedRef
  /\ hook' = connect([hook EXCEPT !.isInitializedRef = TRUE])
  /\ UNCHANGED <<serverVars, now, page, auxVars>>

\* ws.onopen of socket s.
WsOpen(s) ==
  /\ hook.sockets[s] = "CONNECTING"
  /\ hook' = [hook EXCEPT !.sockets[s] = "OPEN",
                          !.manualDisconnectRef = FALSE,
                          !.connectionStatus = "connected",
                          !.isConnected = TRUE,
                          !.reconnectCountRef = 0,
                          !.pingIntervalRef = TRUE,
                          !.failures = 0]
  /\ UNCHANGED <<serverVars, now, page, auxVars>>

\* Socket s closes: the attempt failed, the server or the network closed the
\* connection, or the closing handshake of close() ended.  ws.onerror (on a
\* failure) and then ws.onclose.
WsClose(s) ==
  /\ hook.sockets[s] \in {"CONNECTING", "OPEN", "CLOSING"}
  /\ LET k == [hook EXCEPT !.sockets[s] = "CLOSED",
                           !.connectionStatus = "disconnected",
                           !.isConnected = FALSE,
                           !.wsRef = None,
                           !.pingIntervalRef = FALSE]
     IN hook' =
          IF ShouldReconnect(k)
          THEN [k EXCEPT !.reconnectCountRef = @ + 1,
                         !.connectionStatus = "reconnecting",
                         !.timers = Append(@, Timer("reconnect", Backoff(k.reconnectCountRef))),
                         !.reconnectTimeoutRef = Some(Len(k.timers) + 1),
                         !.failures = @ + 1]
          ELSE k
  /\ UNCHANGED <<serverVars, now, page, auxVars>>

\* A timeout fires: setTimeout(connect, ...) of ws.onclose or of the effect
\* on [eventId, token].
TimerFires(t) ==
  /\ hook.timers[t].state = "pending"
  /\ hook' = connect([hook EXCEPT !.timers[t].state = "fired"])
  /\ UNCHANGED <<serverVars, now, page, auxVars>>

\* The effect on [eventId, token]: the page shows another event.
EventIdChanges ==
  /\ hook.isInitializedRef
  /\ hook' = [disconnect(hook) EXCEPT
                !.timers = Append(@, Timer("eventId", 2 * EventIdDelay)),
                !.eventIdChanges = @ + 1]
  /\ UNCHANGED <<serverVars, now, page, auxVars>>

\* The cleanup of the effect on [token]: the token changes or the page is left.
HookCleanup ==
  /\ hook.isInitializedRef
  /\ hook' = [disconnect(hook) EXCEPT !.cleanups = @ + 1]
  /\ UNCHANGED <<serverVars, now, page, auxVars>>

\* ------------------------------------------------ the browser: EventPage
\* The ETA part of one event page.  React state (event, isCalculatingETAs,
\* participantsWithETA) changes only when a render commits the queued
\* updates; callbacks and effects see the values of the render that created
\* them.  Refs (lastETACalculationRef) change at once.  Times are seconds.
ETA_CALCULATION_INTERVAL == 60
ArriveEarly == 300
EventDatetime == 450
\* event.participants: A and D have a recorded position, B has none, and the
\* recorded position of C is on the equator (latitude 0).
Roster ==
  <<[userId |-> "A", lastLat |-> Some(2), lastLng |-> Some(2)],
    [userId |-> "B", lastLat |-> None, lastLng |-> None],
    [userId |-> "C", lastLat |-> Some(0), lastLng |-> Some(2)],
    [userId |-> "D", lastLat |-> Some(2), lastLng |-> Some(2)]>>
DirectionsMinutes == {1}
DirectionsResults == {None} \cup {Some(m) : m \in DirectionsMinutes}

\* Date.now() in the browser: the page is opened more than one interval
\* after the epoch.
DateNow == now + ETA_CALCULATION_INTERVAL

NoQueued == [event |-> None, isCalculatingETAs |-> None, participantsWithETA |-> None]

PageInit ==
  [event |-> None,                  \* the data of the event query, by version
   isCalculatingETAs |-> FALSE,
   participantsWithETA |-> <<>>,
   queued |-> NoQueued,             \* state updates not yet rendered
   lastETACalculationRef |-> 0,
   nowTick |-> ETA_CALCULATION_INTERVAL,
   effectsPending |-> FALSE,        \* a commit whose effects have not run
   deps |-> [participants |-> None, calculateParticipantETAs |-> None],
   interval |-> None,               \* the auto-refresh setInterval
   ticker |-> FALSE,                \* the one-second setInterval
   runs |-> <<>>,                   \* the recomputations started
   refetches |-> 0, ticks |-> 0]

calculateLeaveByTimeStrict(eventDateTime, etaMinutes, t) ==
  LET targetArrivalTime == eventDateTime - ArriveEarly
      leaveByTime == targetArrivalTime - etaMinutes * 60
  IN [leaveByTime |-> leaveByTime, shouldLeaveNow |-> t > leaveByTime]

calculateLeaveByTime(eventDateTime, etaMinutes, t) ==
  LET targetArrivalTime == eventDateTime - ArriveEarly
      leaveByTime == targetArrivalTime - etaMinutes * 60
  IN [leaveByTime |-> leaveByTime, shouldLeaveNow |-> t >= leaveByTime]

\* One entry of updatedParticipants.
ParticipantWithETA(userId, directions, t) ==
  IF directions = None
  THEN [userId |-> userId, googleETA |-> None, leaveByTime |-> None, shouldLeaveNow |-> None]
  ELSE LET leaveByInfo == calculateLeaveByTime(EventDatetime, Val(directions), t)
       IN [userId |-> userId, googleETA |-> directions,
           leaveByTime |-> Some(leaveByInfo.leaveByTime),
           shouldLeaveNow |-> Some(leaveByInfo.shouldLeaveNow)]

\* The loop over event.participants from participant i up to its next await:
\* a participant whose lastLat or lastLng is falsy is pushed as far and the
\* loop continues; for the first other one getDirections is called.
RECURSIVE LoopFrom(_, _)
LoopFrom(run, i) ==
  IF i > Len(Roster) THEN [run EXCEPT !.i = i, !.pc = "done"]
  ELSE IF ~Truthy(Roster[i].lastLat) \/ ~Truthy(Roster[i].lastLng)
  THEN LoopFrom([run EXCEPT !.updatedParticipants =
                   Append(@, ParticipantWithETA(Roster[i].userId, None, 0))],
                i + 1)
  ELSE [run EXCEPT !.i = i, !.pc = "directions", !.calls = @ + 1]

\* calculateParticipantETAs(forceUpdate) up to its first await, called through
\* a closure that holds isCalculatingETAs (and an event with participants and
\* a location): the first getDirections call is out.
calculateParticipantETAs(p, forceUpdate, isCalculating, t) ==
  IF ~forceUpdate /\ t - p.lastETACalculationRef < ETA_CALCULATION_INTERVAL
  THEN p
  ELSE IF isCalculating
  THEN p
  ELSE [p EXCEPT !.queued.isCalculatingETAs = Some(TRUE),
                 !.runs = Append(@, LoopFrom([forceUpdate |-> forceUpdate, started |-> t,
                                              i |-> 1, pc |-> "directions", calls |-> 0,
                                              updatedParticipants |-> <<>>], 1))]

\* A render and its commit.
Commit(p) ==
  [p EXCEPT !.event = IF p.queued.event # None THEN p.queued.event ELSE @,
            !.isCalculatingETAs = IF p.queued.isCalculatingETAs # None
                                  THEN Val(p.queued.isCalculatingETAs) ELSE @,
            !.participantsWithETA = IF p.queued.participantsWithETA # None
                                    THEN Val(p.queued.participantsWithETA) ELSE @,
            !.queued = NoQueued,
            !.effectsPending = TRUE]

\* The effects of the last commit: the effect on [participants, location]
\* calls calculateParticipantETAs(false); the effect on [participants,
\* location, calculateParticipantETAs] replaces the auto-refresh interval;
\* the effect on [lastETACalculationRef.current] starts the ticker.
FlushEffects(p, t) ==
  LET callback == <<p.event, p.isCalculatingETAs>>
      p1 == IF p.event # None /\ p.deps.participants # p.event
            THEN calculateParticipantETAs(p, FALSE, p.isCalculatingETAs, t)
            ELSE p
  IN [p1 EXCEPT !.effectsPending = FALSE,
                !.deps = [participants |-> p.event, calculateParticipantETAs |-> Some(callback)],
                !.interval = IF p.deps.calculateParticipantETAs = Some(callback) THEN @
                             ELSE IF p.event = None THEN None
                             ELSE Some([isCalculatingETAs |-> p.isCalculatingETAs,
                                        due |-> t + ETA_CALCULATION_INTERVAL]),
                !.ticker = (p.lastETACalculationRef # 0)]

\* No state update waits for its render and no commit for its effects.  React
\* schedules both within milliseconds: they are done before a gateway call
\* returns, before the 200 ms pause ends and before TickSeconds pass.
Settled(p) == p.queued = NoQueued /\ ~p.effectsPending

\* The event query delivers new data (the first load, the 30 s refetch, or
\* the refetch after a WebSocket message).
Refetch ==
  /\ page' = [page EXCEPT !.queued.event = Some(page.refetches + 1),
                          !.refetches = @ + 1]
  /\ UNCHANGED <<serverVars, now, hook, auxVars>>

Render ==
  /\ ~page.effectsPending
  /\ page.queued # NoQueued
  /\ page' = Commit(page)
  /\ UNCHANGED <<serverVars, now, hook, auxVars>>

RunEffects ==
  /\ page.effectsPending
  /\ page' = FlushEffects(page, DateNow)
  /\ UNCHANGED <<serverVars, now, hook, auxVars>>

\* The auto-refresh interval fires: calculateParticipantETAs(true) of the
\* render that set the interval.
IntervalFires ==
  /\ page.interval # None
  /\ DateNow >= Val(page.interval).due
  /\ page' = calculateParticipantETAs(
               [page EXCEPT !.interval = Some([Val(@) EXCEPT !.due = @ + ETA_CALCULATION_INTERVAL])],
               TRUE, Val(page.interval).isCalculatingETAs, DateNow)
  /\ UNCHANGED <<serverVars, now, hook, auxVars>>

\* A click on REFRESH ETAS, which is rendered with participantsWithETA and
\* enabled while the rendered isCalculatingETAs is false; the click's state
\* update is rendered, and its effects run, before the click returns.
ClickRefresh ==
  /\ ~page.effectsPending
  /\ Len(page.participantsWithETA) > 0
  /\ ~page.isCalculatingETAs
  /\ page' = FlushEffects(Commit(calculateParticipantETAs(page, TRUE, page.isCalculatingETAs, DateNow)),
                          DateNow)
  /\ UNCHANGED <<serverVars, now, hook, auxVars>>

\* await getDirections(...) of recomputation r returns directions (minutes)
\* or null.
DirectionsReturn(r, directions) ==
  /\ page.runs[r].pc = "directions"
  /\ Settled(page)
  /\ page' = [page EXCEPT
       !.runs[r].pc = "pause",
       !.runs[r].updatedParticipants =
          Append(@, ParticipantWithETA(Roster[page.runs[r].i].userId, directions, DateNow))]
  /\ UNCHANGED <<serverVars, now, hook, auxVars>>

\* The 200 ms pause of recomputation r ends: the next participant, or the
\* end of the recomputation.
PauseEnds(r) ==
  /\ page.runs[r].pc = "pause"
  /\ Settled(page)
  /\ page' =
       LET run == LoopFrom(page.runs[r], page.runs[r].i + 1)
       IN IF run.pc = "directions"
          THEN [page EXCEPT !.runs[r] = run]
          ELSE [page EXCEPT !.runs[r] = run,
                         !.queued.participantsWithETA = Some(run.updatedParticipants),
                         !.lastETACalculationRef = DateNow,
                         !.queued.isCalculatingETAs = Some(FALSE)]
  /\ UNCHANGED <<serverVars, now, hook, auxVars>>

\* Time passes in the browser; the ticker sets nowTick.
PageTick ==
  /\ Settled(page)
  /\ now' = now + TickSeconds
  /\ page' = [page EXCEPT !.ticks = @ + 1,
                          !.nowTick = IF page.ticker THEN now' + ETA_CALCULATION_INTERVAL ELSE @]
  /\ UNCHANGED <<serverVars, hook, auxVars>>

\* -------------------------------------------- the browser: pure functions
\* getParticipantStatus(distanceKm); distances are metres.
getParticipantStatusInclusive(distanceM) ==
  IF distanceM < 100 THEN "arrived"
  ELSE IF distanceM <= 1000 THEN "close"
  ELSE IF distanceM < 10000 THEN "moving"
  ELSE "far"

getParticipantStatus(distanceM) ==
  IF distanceM < 100 THEN "arrived"
  ELSE IF distanceM < 1000 THEN "close"
  ELSE IF distanceM < 10000 THEN "moving"
  ELSE "far"

\* The status that calculateParticipantETAs derives from directions.distance
\* (metres): distanceKm = directions.distance / 1000, compared with 0.1, 1
\* and 10.  distanceKm is held in thousandths of a kilometre.
StatusOfDirections(distance) ==
  LET distanceKm == distance
  IN IF distanceKm < 100 THEN "arrived"
     ELSE IF distanceKm < 1000 THEN "close"
     ELSE IF distanceKm < 10000 THEN "moving"
     ELSE "far"

\* The inputs: distances on and around every boundary; event times, ETAs
\* (minutes) and clock readings (seconds of the day).
ProbeInputs ==
  {[fn |-> "status", in |-> <<d>>, out |-> <<>>] :
     d \in {0, 1, 50, 99, 100, 101, 500, 999, 1000, 1001, 5000, 9999,
            10000, 10001, 25000}}
  \cup {[fn |-> "leaveBy", in |-> <<T, e, n>>, out |-> <<>>] :
          T \in {64800, 600}, e \in {0, 20, 45},
          n \in {0, 61200, 63240, 63300, 63360, 63600, 64800}}

ApplyStatus ==
  /\ probe.fn = "status" /\ probe.out = <<>>
  /\ probe' = [probe EXCEPT !.out = <<getParticipantStatus(probe.in[1]),
                                     StatusOfDirections(probe.in[1])>>]
  /\ UNCHANGED <<serverVars, now, hook, page, gateway, reporter, requests>>

ApplyLeaveBy ==
  /\ probe.fn = "leaveBy" /\ probe.out = <<>>
  /\ probe' = [probe EXCEPT !.out =
       <<calculateLeaveByTime(probe.in[1], probe.in[2], probe.in[3])>>]
  /\ UNCHANGED <<serverVars, now, hook, page, gateway, reporter, requests>>

\* ------------------------------------- the browser: useGoogleDirections
\* What the awaited fetch of GET /api/directions can do: reject because the
\* 30 s timer aborted it or the network failed, or resolve with one of the
\* statuses the route and its authentication middleware answer with.
FetchOutcomes ==
  {[kind |-> k, status |-> 0] : k \in {"abort", "reject"}}
  \cup {[kind |-> "response", status |-> n] : n \in {200, 400, 401, 403, 404, 500}}

\* The part of getDirections after the fetch, with `throw new Error` of a
\* non-OK response outside the try block.
getDirectionsSettleUncaught(outcome) ==
  IF outcome.kind # "response" THEN [completion |-> "return", value |-> "null"]
  ELSE IF ~(outcome.status \in 200..299) THEN [completion |-> "throw", value |-> "null"]
  ELSE [completion |-> "return", value |-> "data"]

\* The part of getDirections after the fetch: a rejected fetch lands in
\* catch; a response that is not ok throws inside try and lands in catch;
\* catch returns null; an ok response returns its JSON body.
getDirectionsSettle(outcome) ==
  LET thrown == outcome.kind # "response" \/ ~(outcome.status \in 200..299)
  IN IF thrown THEN [completion |-> "return", value |-> "null"]
     ELSE [completion |-> "return", value |-> "data"]

\* getDirections up to its first await.  Without a token it sets the error
\* and returns null at once, leaving the loading flag alone.
GetDirections(token) ==
  /\ Len(gateway.calls) < MaxCalls
  /\ gateway' =
       IF ~token
       THEN [gateway EXCEPT !.error = Some("Authentication required"),
               !.calls = Append(@, [token |-> FALSE, pc |-> "done",
                                    outcome |-> [kind |-> "none", status |-> 0],
                                    completion |-> "return", value |-> "null"])]
       ELSE [gateway EXCEPT !.isLoading = TRUE, !.error = None,
               !.calls = Append(@, [token |-> TRUE, pc |-> "fetch",
                                    outcome |-> [kind |-> "none", status |-> 0],
                                    completion |-> "none", value |-> "none"])]
  /\ UNCHANGED <<serverVars, now, hook, page, probe, reporter, requests>>

\* The fetch of call c settles; try/catch produce the result and finally
\* clears the loading flag before the caller resumes.
FetchSettles(c, outcome) ==
  /\ c \in DOMAIN gateway.calls
  /\ gateway.calls[c].pc = "fetch"
  /\ LET r == getDirectionsSettle(outcome)
     IN gateway' = [gateway EXCEPT
          !.error = IF r.value = "null" THEN Some("error") ELSE @,
          !.isLoading = FALSE,
          !.calls[c] = [@ EXCEPT !.pc = "done", !.outcome = outcome,
                          !.completion = r.completion, !.value = r.value]]
  /\ UNCHANGED <<serverVars, now, hook, page, probe, reporter, requests>>

\* ------------------------------------- the browser: useLocationReporter
\* Positions are metres north of a reference point on one meridian, where
\* calculateHaversineDistance is the difference; times are seconds.
accuracyThreshold == 50
MinDistanceM == 5
MinIntervalS == 15
ReporterTickS == 5

\* enabled and isConnected are the values of the last render; started counts
\* the calls of sendLocationUpdate that reached getCurrentPosition, inFlight
\* those still awaiting it, settled is the last one that finished; emitted
\* are the location_update messages handed to an open socket, each with the
\* enabled and readyState of the moment it was sent.
ReporterInit ==
  [enabled |-> FALSE, isConnected |-> FALSE, startTimeout |-> FALSE,
   intervalRef |-> FALSE, lastPositionRef |-> None,
   started |-> 0, inFlight |-> 0,
   settled |-> [result |-> "none", pos |-> [ok |-> FALSE, lat |-> 0, accuracy |-> 0],
                timestamp |-> 0, last |-> None],
   emitted |-> <<>>, stops |-> 0, depsChanges |-> 0]

calculateHaversineDistance(lat1, lat2) ==
  IF lat1 >= lat2 THEN lat1 - lat2 ELSE lat2 - lat1

\* The emission filter of sendLocationUpdate with `||` between the distance
\* and the time test.
SuppressedEither(pos, timestamp, last) ==
  \/ pos.accuracy > accuracyThreshold
  \/ /\ last # None
     /\ \/ calculateHaversineDistance(pos.lat, Val(last).lat) < MinDistanceM
        \/ timestamp - Val(last).timestamp < MinIntervalS

\* The emission filter of sendLocationUpdate.
Suppressed(pos, timestamp, last) ==
  \/ pos.accuracy > accuracyThreshold
  \/ /\ last # None
     /\ calculateHaversineDistance(pos.lat, Val(last).lat) < MinDistanceM
     /\ timestamp - Val(last).timestamp < MinIntervalS

\* stopReporting that leaves lastPositionRef alone.
stopReportingKeepsLast(r) == [r EXCEPT !.intervalRef = FALSE]

stopReporting(r) == [r EXCEPT !.intervalRef = FALSE, !.lastPositionRef = None]

\* sendLocationUpdate up to its await: the guard reads the enabled and
\* isConnected of the render whose closure is called.
sendLocationUpdate(r) ==
  IF ~r.enabled \/ ~r.isConnected THEN r
  ELSE [r EXCEPT !.started = @ + 1, !.inFlight = @ + 1]

\* The start/stop effect re-runs because enabled or isConnected changed: the
\* cleanup of the previous run (when its conditions were met) clears the 1 s
\* timer and stops; the new run arms the timer or stops.  The socket of the
\* reporter's own useWebSocket is open exactly when isConnected.
DepsChange(enabled, isConnected) ==
  /\ reporter.depsChanges < MaxDepsChanges
  /\ <<enabled, isConnected>> # <<reporter.enabled, reporter.isConnected>>
  /\ LET met == reporter.enabled /\ reporter.isConnected
         cleaned == IF met THEN stopReporting([reporter EXCEPT !.startTimeout = FALSE])
                    ELSE reporter
         props == [cleaned EXCEPT !.enabled = enabled, !.isConnected = isConnected,
                     !.depsChanges = @ + 1,
                     !.stops = @ + (IF met THEN 1 ELSE 0)]
     IN reporter' = IF enabled /\ isConnected
                    THEN [props EXCEPT !.startTimeout = TRUE]
                    ELSE [stopReporting(props) EXCEPT !.stops = @ + 1]
  /\ UNCHANGED <<serverVars, now, hook, page, probe, gateway, requests>>

\* The 1 s timer fires: startReporting.
StartTimeoutFires ==
  /\ reporter.startTimeout
  /\ reporter.started < MaxRequests
  /\ reporter' = [sendLocationUpdate([reporter EXCEPT !.startTimeout = FALSE])
                    EXCEPT !.intervalRef = TRUE]
  /\ UNCHANGED <<serverVars, now, hook, page, probe, gateway, requests>>

\* The sampling interval fires.
ReporterIntervalFires ==
  /\ reporter.intervalRef
  /\ reporter.started < MaxRequests
  /\ reporter' = sendLocationUpdate(reporter)
  /\ UNCHANGED <<serverVars, now, hook, page, probe, gateway, requests>>

\* getCurrentPosition of one request settles and sendLocationUpdate runs to
\* its end: catch on rejection, the accuracy and the distance/time filter,
\* then sendMessage, which sends iff the socket is open.
GeolocationReturns(pos) ==
  /\ reporter.inFlight > 0
  /\ LET last == reporter.lastPositionRef
         delivered == reporter.isConnected
         result == IF ~pos.ok THEN "error"
                   ELSE IF Suppressed(pos, now, last) THEN "suppressed"
                   ELSE IF delivered THEN "sent" ELSE "failed"
     IN reporter' = [reporter EXCEPT
          !.inFlight = @ - 1,
          !.settled = [result |-> result, pos |-> pos,
                       timestamp |-> now, last |-> last],
          !.lastPositionRef = IF result = "sent"
                              THEN Some([lat |-> pos.lat, timestamp |-> now])
                              ELSE @,
          !.emitted = IF result = "sent"
                      THEN Append(@, [lat |-> pos.lat, enabled |-> reporter.enabled,
                                      readyStateOpen |-> reporter.isConnected])
                      ELSE @]
  /\ UNCHANGED <<serverVars, now, hook, page, probe, gateway, requests>>

ReporterTick ==
  /\ now < MaxReporterTicks * ReporterTickS
  /\ now' = now + ReporterTickS
  /\ UNCHANGED <<serverVars, hook, page, auxVars>>

\* -------------------------------------------------------- specifications
\* One event, created by user A (createEvent joins its creator), with or
\* without coordinates; no connection yet.
InitProgram ==
  /\ storageImpl \in {"MemStorage", "PrismaStorage"}
  /\ \E loc \in EventLocations :
       events = [e \in {EventE} |->
                   [creatorId |-> "A", locationLat |-> loc[1], locationLng |-> loc[2]]]
  /\ eventParticipants = <<NewParticipant(1, EventE, "A")>>
  /\ nextRowId = 2
  /\ ws = <<>>
  /\ connections = [u \in {} |-> {}]
  /\ eventConnections = [e \in {} |-> {}]
  /\ sent = <<>>
  /\ handlers = <<>>
  /\ now = 0
  /\ hook = HookInit
  /\ page = PageInit
  /\ gateway = [isLoading |-> FALSE, error |-> None, calls |-> <<>>]
  /\ reporter = ReporterInit
  /\ requests = <<>>

Init == InitProgram /\ probe = [fn |-> "none", in |-> <<>>, out |-> <<>>]

UserTokens == {<<"jwtA">>, <<"jwtB">>}
PipelineMessages == LocationUpdateMsgs \cup {FullJoined, FullLeft}

\* Spec: the location update pipeline with joins and leaves, users A and B in
\* the room of the event.
Next ==
  \/ \E t \in UserTokens : Len(ws) < MaxSockets /\ HandleUpgrade(t, EventE)
  \/ \E c \in Sockets : OnClose(c)
  \/ \E c \in Sockets, m \in PipelineMessages :
       Len(handlers) < MaxMessages /\ OnMessage(c, m)
  \/ \E h \in HandlerIds : ResumeGetEvent(h)
  \/ \E h \in HandlerIds, eta \in Etas : ResumeGoogleETA(h, eta)
  \/ \E h \in HandlerIds : ResumeUpdateRetry(h)
  \/ \E h \in HandlerIds : PrismaUpdateFindFirst(h)
  \/ \E h \in HandlerIds : PrismaUpdateWrite(h)
  \/ \E h \in HandlerIds : ResumeUpdated(h)
  \/ \E h \in HandlerIds : PrismaJoinFindFirst(h)
  \/ \E h \in HandlerIds : PrismaJoinCreate(h)
  \/ \E h \in HandlerIds : ResumeJoined(h)
  \/ \E h \in HandlerIds : PrismaLeave(h)
  \/ \E h \in HandlerIds : ResumeLeft(h)
  \/ now < MaxTicks * TickSeconds /\ Tick

Spec == Init /\ [][Next]_vars

\* SpecRegistry: connects and closes under every kind of token, with and
\* without an event room, and every way a socket closes.
NextRegistry ==
  \/ \E t \in Tokens, e \in UrlEventIds \cup {"E2"} :
       Len(ws) < MaxRegistrySockets /\ HandleUpgrade(t, e)
  \/ \E c \in Sockets : ClientClose(c)
  \/ \E c \in Sockets : OnError(c)
  \/ \E c \in Sockets : OnClose(c)

SpecRegistry == Init /\ [][NextRegistry]_vars

\* SpecAdmission: admitted and refused connection attempts side by side in
\* the room of the event, with messages that are answered and broadcast.
AdmissionMessages == {PingMsg, FullLeft}
AdmissionTokens == {<<>>, <<"forged">>, <<"jwtA">>, <<"jwtB">>}

NextAdmission ==
  \/ \E t \in AdmissionTokens :
       Len(ws) < MaxAdmissionSockets /\ HandleUpgrade(t, EventE)
  \/ \E c \in Sockets : OnClose(c)
  \/ \E c \in Sockets, m \in AdmissionMessages :
       Len(handlers) < MaxAdmissionMessages /\ OnMessage(c, m)
  \/ \E h \in HandlerIds : PrismaLeave(h)
  \/ \E h \in HandlerIds : ResumeLeft(h)

SpecAdmission == Init /\ [][NextAdmission]_vars

\* SpecFanout: location updates and their broadcast.
NextFanout ==
  \/ \E t \in UserTokens, e \in UrlEventIds :
       Len(ws) < MaxFanoutSockets /\ HandleUpgrade(t, e)
  \/ \E c \in Sockets : ClientClose(c)
  \/ \E c \in Sockets : OnClose(c)
  \/ \E c \in Sockets, m \in LocationUpdateMsgs :
       Len(handlers) < MaxFanoutMessages /\ OnMessage(c, m)
  \/ \E h \in HandlerIds : ResumeGetEvent(h)
  \/ \E h \in HandlerIds, eta \in Etas : ResumeGoogleETA(h, eta)
  \/ \E h \in HandlerIds : ResumeUpdateRetry(h)
  \/ \E h \in HandlerIds : PrismaUpdateFindFirst(h)
  \/ \E h \in HandlerIds : PrismaUpdateWrite(h)
  \/ \E h \in HandlerIds : ResumeUpdated(h)

SpecFanout == Init /\ [][NextFanout]_vars

\* SpecChannel: one channel and everything a client can put on the wire.
NextChannel ==
  \/ \E t \in Tokens, e \in UrlEventIds :
       Len(ws) < MaxChannelSockets /\ HandleUpgrade(t, e)
  \/ \E c \in Sockets : OnClose(c)
  \/ \E c \in Sockets, m \in InboundMessages :
       Len(handlers) < MaxChannelMessages /\ OnMessage(c, m)
  \/ \E h \in HandlerIds : ResumeGetEvent(h)
  \/ \E h \in HandlerIds, eta \in Etas : ResumeGoogleETA(h, eta)
  \/ \E h \in HandlerIds : ResumeUpdateRetry(h)
  \/ \E h \in HandlerIds : PrismaUpdateFindFirst(h)
  \/ \E h \in HandlerIds : PrismaUpdateWrite(h)
  \/ \E h \in HandlerIds : ResumeUpdated(h)
  \/ \E h \in HandlerIds : PrismaJoinFindFirst(h)
  \/ \E h \in HandlerIds : PrismaJoinCreate(h)
  \/ \E h \in HandlerIds : ResumeJoined(h)
  \/ \E h \in HandlerIds : PrismaLeave(h)
  \/ \E h \in HandlerIds : ResumeLeft(h)

SpecChannel == Init /\ [][NextChannel]_vars

\* SpecLifecycle: participant rows over joins, leaves, location updates and
\* the deletion of the event, by WebSocket messages and by HTTP routes.
NextLifecycle ==
  \/ \E t \in UserTokens : Len(ws) < MaxLifecycleSockets /\ HandleUpgrade(t, EventE)
  \/ \E c \in Sockets, m \in PipelineMessages :
       Len(handlers) < MaxLifecycleMessages /\ OnMessage(c, m)
  \/ \E u \in Users : DeleteEventRoute(EventE, u)
  \/ \E u \in Users : JoinRoute(EventE, u)
  \/ \E h \in HandlerIds : ResumeGetEvent(h)
  \/ \E h \in HandlerIds, eta \in Etas : ResumeGoogleETA(h, eta)
  \/ \E h \in HandlerIds : ResumeUpdateRetry(h)
  \/ \E h \in HandlerIds : PrismaUpdateFindFirst(h)
  \/ \E h \in HandlerIds : PrismaUpdateWrite(h)
  \/ \E h \in HandlerIds : ResumeUpdated(h)
  \/ \E h \in HandlerIds : PrismaJoinFindFirst(h)
  \/ \E h \in HandlerIds : PrismaJoinCreate(h)
  \/ \E h \in HandlerIds : ResumeJoined(h)
  \/ \E h \in HandlerIds : PrismaLeave(h)
  \/ \E h \in HandlerIds : ResumeLeft(h)

SpecLifecycle == Init /\ [][NextLifecycle]_vars

\* ------------------------------------------------------------------ claims
\* The positions at which socket c was sent the eta_updated caused by handler h.
EtaUpdatesOf(c, h) ==
  {i \in 1..Len(sent[c]) : sent[c][i].of = h /\ sent[c][i].type = "eta_updated"}

Sender(h) == ws[handlers[h].ws].userId

\* The step in which a location update reaches its broadcast.
Broadcasts(h) == handlers[h].pc = "updated" /\ handlers'[h].pc = "done"

FanOutStep(h) ==
  Broadcasts(h) =>
    \A c \in Sockets :
      IF /\ ws[c].readyState = "OPEN"
         /\ ws[c].eventId = handlers[h].msg.eventId
         /\ ws[c].userId # Sender(h)
      THEN /\ Len(sent'[c]) = Len(sent[c]) + 1
           /\ SubSeq(sent'[c], 1, Len(sent[c])) = sent[c]
           /\ LET o == sent'[c][Len(sent'[c])]
              IN /\ o.type = "eta_updated"
                 /\ o.participantId = Sender(h)
                 /\ o.eventId = handlers[h].msg.eventId
                 /\ o.of = h
      ELSE sent'[c] = sent[c]

FanOutOnce ==
  \A h \in HandlerIds : \A c \in Sockets :
    /\ Cardinality(EtaUpdatesOf(c, h)) <= 1
    /\ ws[c].userId = Sender(h) => EtaUpdatesOf(c, h) = {}
    /\ \A i \in EtaUpdatesOf(c, h) : sent[c][i].participantId = Sender(h)

\* C1: when a valid location update of user A for event E is persisted, the
\* broadcast step appends exactly one eta_updated with participantId A to
\* every open connection bound to E of every other user and sends nothing to
\* any other connection; no connection ever holds two eta_updated of one
\* update, and no connection of A holds any.
C1_FanOut ==
  /\ [][\A h \in HandlerIds : FanOutStep(h)]_vars
  /\ []FanOutOnce

C1_Witness ==
  \E h \in HandlerIds : \E a, b, d \in Sockets :
    /\ handlers[h].outcome = "broadcast"
    /\ handlers[h].ws = a
    /\ b # d
    /\ ws[a].userId = "A" /\ ws[a].eventId = EventE /\ ws[a].readyState = "OPEN"
    /\ ws[b].userId = "B" /\ ws[b].eventId = EventE /\ ws[b].readyState = "OPEN"
    /\ ws[d].userId = "B" /\ ws[d].eventId = EventE /\ ws[d].readyState = "OPEN"
    /\ Cardinality(EtaUpdatesOf(b, h)) = 1
    /\ Cardinality(EtaUpdatesOf(d, h)) = 1
    /\ EtaUpdatesOf(a, h) = {}

\* The row of the pair (event, user), as a nullable.
RowOf(eventId, userId) ==
  LET k == FindParticipant(eventParticipants, eventId, userId)
  IN IF k = None THEN None ELSE Some(eventParticipants[Val(k)])

Persisted(h) ==
  /\ handlers[h].msg.type = "location_update"
  /\ handlers[h].outcome = "broadcast"

\* C2: two location updates s1 then s2 of one participant, both persisted:
\* the participant's row holds the position of s2, and the prior position
\* that the isMoving of s2 was computed against is the position of s1.
C2_Serialized ==
  \A h1, h2 \in HandlerIds :
    ( /\ storageImpl = "MemStorage"
      /\ h1 < h2
      /\ handlers[h1].ws = handlers[h2].ws
      /\ handlers[h1].msg # handlers[h2].msg
      /\ Persisted(h1) /\ Persisted(h2) )
    => LET row == RowOf(handlers[h2].msg.eventId, Sender(h2))
           prior == handlers[h2].event.userParticipant
       IN /\ row # None
          /\ Val(row).lastLat = Some(handlers[h2].msg.lat)
          /\ Val(row).lastLng = Some(handlers[h2].msg.lng)
          /\ prior # None
          /\ Val(prior).lastLat = Some(handlers[h1].msg.lat)
          /\ Val(prior).lastLng = Some(handlers[h1].msg.lng)

\* C3: within one channel the storage operations and broadcasts of an
\* earlier message all happen before those of a later message: no handler
\* performs an effect after a later handler of its socket performed one.
C3_ArrivalOrder == \A h \in HandlerIds : handlers[h].order # "late"

\* The sockets the registry references.
InByUser == UNION {connections[u] : u \in DOMAIN connections}
InByEvent == UNION {eventConnections[e] : e \in DOMAIN eventConnections}
Registered == InByUser \cup InByEvent

\* C4: a closed connection is in neither registry map, no key of either map
\* holds an empty set, and once every connection has closed both maps are
\* empty again.
C4_RegistryPruned ==
  /\ \A c \in Sockets : ws[c].readyState = "CLOSED" => c \notin Registered
  /\ \A u \in DOMAIN connections : connections[u] # {}
  /\ \A e \in DOMAIN eventConnections : eventConnections[e] # {}
  /\ (\A c \in Sockets : ws[c].readyState \notin {"OPEN", "CLOSING"})
       => DOMAIN connections = {} /\ DOMAIN eventConnections = {}

C4_Witness ==
  /\ \E c, d \in Sockets :
       /\ c # d
       /\ ws[c].userId = ws[d].userId /\ ws[c].userId # Null
       /\ ws[c].eventId = EventE /\ ws[d].eventId = EventE
       /\ ws[c].readyState = "CLOSED" /\ ws[d].readyState = "CLOSED"
  /\ DOMAIN connections = {} /\ DOMAIN eventConnections = {}

\* A token that jsonwebtoken verifies, bare or behind the 'Bearer ' prefix.
Verifiable(t) ==
  \/ JwtVerify(t) # None
  \/ Len(t) = 2 /\ t[1] = "Bearer " /\ JwtVerify(Tail(t)) # None

\* C5: a connection attempt with no token or with a token that fails
\* verification is never open, is in neither registry map, has none of its
\* messages handled and is sent nothing.
C5_NeverOpen ==
  \A c \in Sockets :
    ~Verifiable(ws[c].token) =>
      /\ ws[c].readyState # "OPEN"
      /\ c \notin Registered
      /\ sent[c] = <<>>
      /\ \A h \in HandlerIds : handlers[h].ws # c

C5_Witness ==
  \E c, d, e \in Sockets : \E h \in HandlerIds :
    /\ ~Verifiable(ws[c].token) /\ ws[c].readyState = "REFUSED" /\ sent[c] = <<>>
    /\ handlers[h].ws = d /\ handlers[h].outcome = "broadcast"
    /\ ws[e].readyState = "OPEN" /\ ws[e].userId # ws[d].userId
    /\ \E i \in 1..Len(sent[e]) : sent[e][i].of = h

\* C6: a connection attempt without a token ends with the token-required
\* reason and one with an invalid token ends with the token-invalid reason.
C6_RejectionReasons ==
  \A c \in Sockets :
    /\ ws[c].token = <<>> => ws[c].rejection = "1008 Token required"
    /\ (ws[c].token # <<>> /\ ~Verifiable(ws[c].token))
         => ws[c].rejection = "1008 Invalid token"

\* C7: the step in which a socket's close event occurs, after a normal
\* close, a close by the client or a transport error, removes the socket
\* from the registry; every socket in the registry has not had its close
\* event.
C7_UnregisterOnClose ==
  /\ [][\A c \in Sockets :
          (ws[c].readyState # "CLOSED" /\ ws'[c].readyState = "CLOSED")
            => /\ \A u \in DOMAIN connections' : c \notin connections'[u]
               /\ \A e \in DOMAIN eventConnections' : c \notin eventConnections'[e]]_vars
  /\ [](\A c \in Registered : ws[c].readyState \in {"OPEN", "CLOSING"})

C7_Witness ==
  \E c, d \in Sockets :
    /\ ws[c].errored /\ ws[c].readyState = "CLOSED" /\ ws[c].eventId = EventE
    /\ ~ws[d].errored /\ ws[d].readyState = "CLOSED" /\ ws[d].eventId = EventE
    /\ Registered = {}

\* The error replies socket c was sent for handler h.
ErrorRepliesOf(c, h) ==
  {i \in 1..Len(sent[c]) : sent[c][i].of = h /\ sent[c][i].error # Null}

InboundTypes == {"location_update", "participant_joined", "participant_left", "ping"}

\* The documented inbound shapes: location_update {eventId, lat, lng},
\* participant_joined {eventId}, participant_left {eventId}, ping.
DocumentedShape(m) ==
  /\ m.raw = "object"
  /\ m.type \in InboundTypes
  /\ m.type # "ping" => m.shape["eventId"] = "string"
  /\ m.type = "location_update" => m.shape["lat"] = "number" /\ m.shape["lng"] = "number"

Finished(h) == handlers[h].pc = "done"

\* C8: every inbound message that is not a well-formed location_update,
\* participant_joined, participant_left or ping (unparseable, of an unknown
\* or outbound-only type, or with missing or ill-typed fields) has been
\* answered with an error reply on its own channel once it is processed.
C8_ErrorReplied ==
  \A h \in HandlerIds :
    (Finished(h) /\ ~DocumentedShape(handlers[h].msg))
      => ErrorRepliesOf(handlers[h].ws, h) # {}

\* C9: a location_update carrying only {eventId, lat, lng}, a
\* participant_joined carrying only {eventId} and a participant_left carrying
\* only {eventId} pass validation and are dispatched.
C9_DocumentedAccepted ==
  \A h \in HandlerIds :
    handlers[h].msg \in {DocumentedLocationUpdate, DocumentedJoined, DocumentedLeft}
      => /\ handlers[h].outcome # "validation_error"
         /\ ErrorRepliesOf(handlers[h].ws, h) = {}

\* The rule of movement: a prior position is recorded, it is more than
\* 0.1 km from the reported one, and it was reported less than 30 s ago.
MovementRule(recorded, lat, lng, t) ==
  /\ recorded # None
  /\ Val(recorded).lastLat # None
  /\ Val(recorded).lastLng # None
  /\ calculateDistance(lat, lng, Val(Val(recorded).lastLat), Val(Val(recorded).lastLng))
       > MovementThresholdM
  /\ Val(recorded).lastLocationAt # None
  /\ t - Val(Val(recorded).lastLocationAt) < MovementWindowS

\* The step in which a location update computes isMoving.
ComputesIsMoving(h) ==
  /\ handlers[h].pc \in {"getEvent", "gotEvent", "eta"}
  /\ handlers'[h].pc \in {"updateRetry", "updateFind", "updated"}

\* C10: the isMoving a location update computes is true exactly when the
\* participant's recorded prior position, a zero latitude or longitude
\* included, is more than 0.1 km away and less than 30 s old; it is false on
\* the first report.
C10_IsMoving ==
  [][\A h \in HandlerIds :
       ComputesIsMoving(h) =>
         handlers'[h].isMoving =
           MovementRule(handlers'[h].recorded, handlers[h].msg.lat,
                        handlers[h].msg.lng, now)]_vars

\* A location update whose Directions call was made and came back as failure.
GatewayFailed(h) ==
  /\ handlers[h].msg.type = "location_update"
  /\ handlers[h].pc \notin {"getEvent", "gotEvent", "eta"}
  /\ handlers[h].event.found
  /\ Truthy(handlers[h].event.locationLat) /\ Truthy(handlers[h].event.locationLng)
  /\ handlers[h].eta = 0

\* The step in which the Directions call of h comes back as failure.
GatewayFails(h) ==
  handlers[h].pc = "eta" /\ handlers'[h].pc # "eta" /\ handlers'[h].eta = 0

\* The step in which the row of a location update is written.
WritesRow(h) ==
  /\ handlers[h].msg.type = "location_update"
  /\ handlers[h].pc # "updated" /\ handlers'[h].pc = "updated"

RowHoldsSample(row, h) ==
  /\ row # None
  /\ Val(row).lastLat = Some(handlers[h].msg.lat)
  /\ Val(row).lastLng = Some(handlers[h].msg.lng)
  /\ Val(row).distanceToEvent = Some(handlers[h].distance)

NextLive ==
  \/ \E t \in UserTokens : Len(ws) < MaxLiveSockets /\ HandleUpgrade(t, EventE)
  \/ \E c \in Sockets : OnClose(c)
  \/ \E c \in Sockets, m \in LocationUpdateMsgs :
       Len(handlers) < MaxLiveMessages /\ OnMessage(c, m)
  \/ \E h \in HandlerIds : ResumeGetEvent(h)
  \/ \E h \in HandlerIds, eta \in Etas : ResumeGoogleETA(h, eta)
  \/ \E h \in HandlerIds : ResumeUpdateRetry(h)
  \/ \E h \in HandlerIds : PrismaUpdateFindFirst(h)
  \/ \E h \in HandlerIds : PrismaUpdateWrite(h)
  \/ \E h \in HandlerIds : ResumeUpdated(h)

LiveHandlerIds == 1..MaxLiveMessages

\* A continuation of handler h that waits for nothing outside the server.
ServerStep(h) ==
  /\ h \in HandlerIds
  /\ \/ ResumeGetEvent(h)
     \/ ResumeUpdateRetry(h)
     \/ PrismaUpdateFindFirst(h)
     \/ PrismaUpdateWrite(h)
     \/ ResumeUpdated(h)

SpecLive ==
  /\ Init
  /\ [][NextLive]_vars
  /\ \A h \in LiveHandlerIds : WF_vars(ServerStep(h))

Started(h) == h \in HandlerIds /\ handlers[h].msg.type = "location_update"

\* C12: every location update that has started eventually finishes (it
\* persists and broadcasts, or aborts), the provider answering or not: no
\* run stays suspended on the Directions call forever.
C12_PipelineTerminates ==
  \A h \in LiveHandlerIds : Started(h) ~> (Started(h) /\ Finished(h))

\* C14: there is at most one participant row per (eventId, userId) pair,
\* however joins by HTTP, participant_joined messages and location updates
\* interleave.
C14_OneRowPerPair ==
  \A i, j \in 1..Len(eventParticipants) :
    ( /\ eventParticipants[i].eventId = eventParticipants[j].eventId
      /\ eventParticipants[i].userId = eventParticipants[j].userId )
    => i = j

\* The (eventId, userId) pairs that have a participant row.
RowPairs(rows) == {<<rows[i].eventId, rows[i].userId>> : i \in 1..Len(rows)}

\* A step taken by the handler of a location update.
PipelineStep(h) ==
  /\ h \in DOMAIN handlers'
  /\ handlers'[h].msg.type = "location_update"
  /\ h \in HandlerIds => handlers'[h].pc # handlers[h].pc

\* C15: the location update pipeline only mutates an existing row: no step
\* of a location update brings a row into existence for a pair that had none.
C15_PipelineCreatesNoRow ==
  [][\A h \in DOMAIN handlers' :
       PipelineStep(h) => RowPairs(eventParticipants') \subseteq RowPairs(eventParticipants)]_vars

\* C16: every participant row references an existing event, so after the
\* deletion of an event no row of it exists, whatever was suspended when it
\* was deleted.
C16_RowsReferenceEvents ==
  \A i \in 1..Len(eventParticipants) : eventParticipants[i].eventId \in DOMAIN events

\* A location update that stopped at the resolution of the event or at
\* persistence: the event was not found, the storage returned no row, or the
\* storage threw.
FailedUpdate(h) ==
  /\ handlers[h].msg.raw = "object"
  /\ handlers[h].msg.type = "location_update"
  /\ handlers[h].pc = "done"
  /\ handlers[h].outcome \in {"event_not_found", "not_persisted", "processing_error"}

\* The step in which location update h fails.
UpdateFails(h) == handlers[h].pc # "done" /\ FailedUpdate(h)'

\* The failing step touches nothing but the record of its own handler and, at
\* most, one error reply to its own socket.
AbortsAlone(h) ==
  /\ UNCHANGED <<storageVars, ws, registryVars>>
  /\ \A g \in HandlerIds \ {h} : handlers'[g] = handlers[g]
  /\ \A c \in Sockets :
       \/ sent'[c] = sent[c]
       \/ /\ c = handlers[h].ws
          /\ sent'[c] = Append(sent[c], ErrorReply("Message processing failed", h))

\* C13: a location update that fails at the resolution of the event or at
\* persistence (event not found, storage returns no row, storage throws)
\* broadcasts no eta_updated for its sample, neither in the failing step nor
\* ever; the failing step leaves every connection as it was (an Open one stays
\* Open), and it leaves the storage, the registry and every other handler
\* untouched, so that a later sample of the same connection is processed from
\* the state it would have found without the failed one.
C13_NoPartialBroadcast ==
  /\ [][\A h \in HandlerIds : UpdateFails(h) => AbortsAlone(h)]_vars
  /\ [](\A h \in HandlerIds : FailedUpdate(h) =>
          \A c \in Sockets : EtaUpdatesOf(c, h) = {})

\* A sample failed, and a later sample of the same connection, still Open,
\* was persisted and broadcast.
C13_Witness ==
  \E h1, h2 \in HandlerIds :
    /\ h1 < h2
    /\ handlers[h1].ws = handlers[h2].ws
    /\ FailedUpdate(h1)
    /\ handlers[h2].msg.type = "location_update"
    /\ handlers[h2].outcome = "broadcast"
    /\ ws[handlers[h1].ws].readyState = "OPEN"

\* SpecReconnect: one useWebSocket hook whose connection attempts succeed or
\* fail, with a change of event and the cleanup of the hook.
ClientSockets == 1..Len(hook.sockets)
ClientTimers == 1..Len(hook.timers)

NextReconnect ==
  \/ HookMount
  \/ \E s \in ClientSockets : WsOpen(s)
  \/ \E s \in ClientSockets : WsClose(s)
  \/ \E t \in ClientTimers : Len(hook.sockets) < MaxClientSockets /\ TimerFires(t)
  \/ hook.eventIdChanges < MaxEventIdChanges /\ EventIdChanges
  \/ hook.cleanups < MaxCleanups /\ HookCleanup

SpecReconnect == Init /\ [][NextReconnect]_vars

\* The reconnect timers that have not fired and were not cleared.
PendingReconnects ==
  {t \in ClientTimers : hook.timers[t].callback = "reconnect" /\ hook.timers[t].state = "pending"}

\* The step schedules a reconnect.
SchedulesReconnect ==
  /\ Len(hook'.timers) = Len(hook.timers) + 1
  /\ hook'.timers[Len(hook'.timers)].callback = "reconnect"

\* A socket closes after reconnectAttempts consecutive failures.
LastFailure ==
  /\ hook.failures = reconnectAttempts
  /\ \E s \in ClientSockets : hook.sockets[s] # "CLOSED" /\ hook'.sockets[s] = "CLOSED"

\* C17: counted from the last successful open (or from the start), the hook
\* schedules at most reconnectAttempts (5) reconnects; the reconnect scheduled
\* after k consecutive failures waits reconnectDelay * 1.5^k, which grows
\* with k; the close that follows the last allowed reconnect schedules
\* nothing and leaves the status "disconnected", and with every socket closed
\* and no reconnect pending the status is "disconnected".
C17_ReconnectBounded ==
  /\ [](hook.failures <= reconnectAttempts)
  /\ [][SchedulesReconnect =>
         /\ hook.failures < reconnectAttempts
         /\ hook'.failures = hook.failures + 1
         /\ hook'.timers[Len(hook'.timers)].delay = Backoff(hook.failures)
         /\ Backoff(hook.failures) >= 2 * reconnectDelay
         /\ \A j \in 0..(hook.failures - 1) : Backoff(j) < Backoff(hook.failures)]_vars
  /\ [][LastFailure =>
         /\ hook'.timers = hook.timers
         /\ hook'.connectionStatus = "disconnected"]_vars
  /\ []((/\ \A s \in ClientSockets : hook.sockets[s] = "CLOSED"
         /\ PendingReconnects = {}
         /\ hook.isInitializedRef)
        => hook.connectionStatus = "disconnected")

\* Five reconnects were scheduled and all failed: every socket is closed, no
\* timer is pending, the status is "disconnected".
C17_Witness ==
  /\ hook.failures = reconnectAttempts
  /\ Len(hook.sockets) = reconnectAttempts + 1
  /\ \A s \in ClientSockets : hook.sockets[s] = "CLOSED"
  /\ \A t \in ClientTimers : hook.timers[t].state = "fired"
  /\ hook.timers[reconnectAttempts].delay = Backoff(reconnectAttempts - 1)
  /\ hook.connectionStatus = "disconnected"

\* SpecPage: the ETA refresh of one event page: query results, renders,
\* effects, the auto-refresh timer, the refresh button and the gateway.
PageRuns == 1..Len(page.runs)

NextPage ==
  \/ page.refetches < MaxRefetches /\ Refetch
  \/ Render
  \/ Len(page.runs) < MaxRuns /\ RunEffects
  \/ Len(page.runs) < MaxRuns /\ IntervalFires
  \/ Len(page.runs) < MaxRuns /\ ClickRefresh
  \/ \E r \in PageRuns, d \in DirectionsResults : DirectionsReturn(r, d)
  \/ \E r \in PageRuns : PauseEnds(r)
  \/ page.ticks < MaxPageTicks /\ PageTick

SpecPage == Init /\ [][NextPage]_vars

\* C18: of two recomputations started less than 60 s apart, the second is a
\* forced one: an invocation without force within 60 s of another invocation
\* makes no gateway call, also while the first is still in flight.
C18_Throttled ==
  \A r1, r2 \in PageRuns :
    (/\ r1 < r2
     /\ page.runs[r2].started - page.runs[r1].started < ETA_CALCULATION_INTERVAL
     /\ ~page.runs[r2].forceUpdate)
    => page.runs[r2].calls = 0

\* C19: at most one recomputation is in flight.
C19_OneInFlight ==
  Cardinality({r \in PageRuns : page.runs[r].pc # "done"}) <= 1

\* C20: the shouldLeaveNow shown for a participant with a known ETA equals
\* (the wall clock has reached leaveBy).
C20_ShouldLeaveNowLive ==
  \A j \in 1..Len(page.participantsWithETA) :
    LET shown == page.participantsWithETA[j]
    IN shown.googleETA # None =>
         Val(shown.shouldLeaveNow) = (DateNow >= Val(shown.leaveByTime))

\* SpecProbe: the pure functions of the event page applied to drawn inputs.
NextProbe == ApplyStatus \/ ApplyLeaveBy

InitProbe == InitProgram /\ probe \in ProbeInputs

SpecProbe == InitProbe /\ [][NextProbe]_vars

\* C21: for every event time T, ETA e (minutes) and clock reading n,
\* calculateLeaveByTime gives leaveBy = T - 5 min - e and shouldLeaveNow =
\* (n >= leaveBy), true at n = leaveBy; T = 18:00 and e = 20 give 17:35, true
\* at 17:40 and false at 17:00.
C21_LeaveBy ==
  (probe.fn = "leaveBy" /\ probe.out # <<>>) =>
    LET T == probe.in[1]
        e == probe.in[2]
        n == probe.in[3]
        r == probe.out[1]
    IN /\ r.leaveByTime = T - 5 * 60 - e * 60
       /\ r.shouldLeaveNow = (n >= T - 5 * 60 - e * 60)
       /\ (T = 18 * 3600 /\ e = 20) =>
            /\ r.leaveByTime = 17 * 3600 + 35 * 60
            /\ n = 17 * 3600 + 40 * 60 => r.shouldLeaveNow
            /\ n = 17 * 3600 => ~r.shouldLeaveNow
            /\ n = r.leaveByTime => r.shouldLeaveNow

\* The boundary case of the example: the clock reads exactly leaveBy.
C21_Witness ==
  /\ probe.fn = "leaveBy" /\ probe.out # <<>>
  /\ probe.in = <<18 * 3600, 20, 17 * 3600 + 35 * 60>>
  /\ probe.out[1].shouldLeaveNow

\* C22: getParticipantStatus maps every non-negative distance to exactly one
\* of arrived (below 0.1 km), close (0.1 to below 1), moving (1 to below 10)
\* and far (10 and above), and the status computed inside
\* calculateParticipantETAs is the same bucket.
C22_StatusPartition ==
  (probe.fn = "status" /\ probe.out # <<>>) =>
    LET d == probe.in[1]
        s == probe.out[1]
    IN /\ s \in {"arrived", "close", "moving", "far"}
       /\ (s = "arrived") = (d < 100)
       /\ (s = "close") = (100 <= d /\ d < 1000)
       /\ (s = "moving") = (1000 <= d /\ d < 10000)
       /\ (s = "far") = (10000 <= d)
       /\ probe.out[2] = s

\* The distance of exactly 1 km is classified, as moving, by both.
C22_Witness ==
  /\ probe.fn = "status" /\ probe.in = <<1000>>
  /\ probe.out = <<"moving", "moving">>

\* SpecGateway: callers of getDirections, with and without a token, and the
\* fetches settling in any order.
NextGateway ==
  \/ \E token \in BOOLEAN : GetDirections(token)
  \/ \E c \in 1..MaxCalls, outcome \in FetchOutcomes : FetchSettles(c, outcome)

SpecGateway == Init /\ [][NextGateway]_vars

GatewayInFlight == {c \in DOMAIN gateway.calls : gateway.calls[c].pc = "fetch"}

NextReporter ==
  \/ \E enabled \in BOOLEAN, isConnected \in BOOLEAN : DepsChange(enabled, isConnected)
  \/ StartTimeoutFires
  \/ ReporterIntervalFires
  \/ \E pos \in {[ok |-> TRUE, lat |-> y, accuracy |-> a] :
                    y \in {0, 4, 5}, a \in {10, 50, 51}}
                 \cup {[ok |-> FALSE, lat |-> 0, accuracy |-> 0]} :
       GeolocationReturns(pos)
  \/ ReporterTick

SpecReporter == Init /\ [][NextReporter]_vars

\* C24: every location_update the reporter emitted left while reporting was
\* enabled by the caller (which includes being a participant) and the
\* channel was open; a geolocation request that settles after reporting was
\* stopped emits nothing.
C24_EmitsOnlyWhenActive ==
  \A i \in DOMAIN reporter.emitted :
    reporter.emitted[i].enabled /\ reporter.emitted[i].readyStateOpen

\* C25: a settled sample is suppressed exactly when its accuracy exceeds the
\* threshold or it is both within 5 m of the last emitted sample and within
\* 15 s of it; otherwise it is handed to the channel; lastPositionRef
\* becomes the sample when the send succeeded and is unchanged otherwise.
C25_EmissionFilter ==
  [][(reporter'.inFlight < reporter.inFlight /\ reporter'.settled.pos.ok)
       => LET r == reporter'.settled
              last == reporter.lastPositionRef
              tooCoarse == r.pos.accuracy > 50
              redundant ==
                /\ last # None
                /\ r.pos.lat - Val(last).lat \in -4..4
                /\ r.timestamp - Val(last).timestamp < 15
          IN /\ (r.result = "suppressed") = (tooCoarse \/ redundant)
             /\ (r.result = "sent") = (~tooCoarse /\ ~redundant /\ reporter.isConnected)
             /\ (r.result = "sent")
                  => /\ reporter'.lastPositionRef =
                          Some([lat |-> r.pos.lat, timestamp |-> r.timestamp])
                     /\ Len(reporter'.emitted) = Len(reporter.emitted) + 1
             /\ (r.result # "sent")
                  => /\ reporter'.lastPositionRef = last
                     /\ reporter'.emitted = reporter.emitted]_vars

\* A second sample was emitted 15 s after the first from the same place, and
\* so passed the filter on time alone.
C25_Witness ==
  /\ Len(reporter.emitted) = 2
  /\ reporter.settled.result = "sent"
  /\ reporter.settled.last # None
  /\ reporter.settled.pos.lat = Val(reporter.settled.last).lat
  /\ reporter.settled.timestamp = Val(reporter.settled.last).timestamp + 15

\* C26: stopReporting leaves no interval and no last-sample memory, and
\* applied again to its own result, or to a reporter that never started, it
\* changes nothing.
C26_StopIdempotent ==
  LET once == stopReporting(reporter)
  IN /\ ~once.intervalRef
     /\ once.lastPositionRef = None
     /\ stopReporting(once) = once
     /\ (~reporter.intervalRef /\ reporter.lastPositionRef = None) => once = reporter

\* The effect stopped a reporter that had an interval and a last sample, and
\* stopped it again in the same run (cleanup, then the else branch).
C26_Witness ==
  /\ reporter.stops >= 2
  /\ Len(reporter.emitted) >= 1
  /\ ~reporter.intervalRef
  /\ reporter.lastPositionRef = None

\* SpecBroadcast: connections bound to event E1, to another room, or to no
\* room; joins and leaves over the channel; deletion of the event.
NextBroadcast ==
  \/ \E t \in UserTokens, e \in UrlEventIds \cup {"E2"} :
       Len(ws) < MaxBroadcastSockets /\ HandleUpgrade(t, e)
  \/ \E c \in Sockets : ClientClose(c)
  \/ \E c \in Sockets, m \in {FullJoined, FullLeft} :
       Len(handlers) < MaxBroadcastMessages /\ OnMessage(c, m)
  \/ \E u \in Users : DeleteEventRoute(EventE, u)
  \/ \E h \in HandlerIds : PrismaJoinFindFirst(h)
  \/ \E h \in HandlerIds : PrismaJoinCreate(h)
  \/ \E h \in HandlerIds : ResumeJoined(h)
  \/ \E h \in HandlerIds : PrismaLeave(h)
  \/ \E h \in HandlerIds : ResumeLeft(h)

SpecBroadcast == Init /\ [][NextBroadcast]_vars

\* The connections a broadcast to eventId excluding excludeUserId is for.
Recipients(eventId, excludeUserId) ==
  {c \in Sockets : /\ ws[c].eventId = eventId
                   /\ ws[c].readyState = "OPEN"
                   /\ ws[c].userId # excludeUserId}

\* This step appends one message of the type to each recipient and nothing
\* to any other connection.
Delivers(type, eventId, excludeUserId) ==
  \A c \in Sockets :
    IF c \in Recipients(eventId, excludeUserId)
    THEN /\ Len(sent'[c]) = Len(sent[c]) + 1
         /\ SubSeq(sent'[c], 1, Len(sent[c])) = sent[c]
         /\ sent'[c][Len(sent'[c])].type = type
         /\ sent'[c][Len(sent'[c])].eventId = eventId
    ELSE sent'[c] = sent[c]

\* C27: every broadcast (participant_joined and participant_left, which
\* exclude the sender's user, and event_deleted, which excludes nobody) is
\* delivered to exactly the open connections of the event's room whose user
\* is not the excluded one; connections of another room or of no room get
\* nothing; with nobody in the room the step sends nothing and completes.
C27_BroadcastRecipients ==
  /\ [][\A h \in HandlerIds :
          (handlers[h].pc \in {"joined", "left"} /\ handlers'[h].pc = "done")
          => /\ Delivers(IF handlers[h].pc = "joined" THEN "participant_joined"
                         ELSE "participant_left",
                         handlers[h].msg.eventId, ws[handlers[h].ws].userId)
             /\ handlers'[h].outcome = "broadcast"]_vars
  /\ [][(EventE \in DOMAIN events /\ EventE \notin DOMAIN events')
          => Delivers("event_deleted", EventE, Null)]_vars

\* A connection of A bound to no room broadcast to event E1 with B in its
\* room and another connection of B in room E2: only B's connection in E1
\* got the message.
C27_Witness ==
  \E a, b, d \in Sockets :
    /\ ws[a].userId = "A" /\ ws[a].eventId = Null
    /\ ws[b].userId = "B" /\ ws[b].eventId = EventE
    /\ ws[d].userId = "B" /\ ws[d].eventId = "E2" /\ ws[d].readyState = "OPEN"
    /\ \E h \in HandlerIds : handlers[h].ws = a /\ handlers[h].outcome = "broadcast"
    /\ {i \in 1..Len(sent[b]) : sent[b][i].of # 0} # {}
    /\ \A i \in 1..Len(sent[d]) : sent[d][i].of = 0
    /\ \A i \in 1..Len(sent[a]) : sent[a][i].of = 0

\* C28: the step in which a location update is persisted overwrites
\* lastLat, lastLng, lastLocationAt and isMoving of the sender's row; it
\* sets estimatedArrival to now + eta minutes when eta > 0 and leaves the
\* stored estimatedArrival as it was when eta = 0.
C28_ArrivalOverwrite ==
  [][\A h \in HandlerIds :
       (handlers[h].pc # "updated" /\ handlers'[h].pc = "updated")
       => LET m == handlers[h].msg
              userId == ws[handlers[h].ws].userId
              kb == FindParticipant(eventParticipants, m.eventId, userId)
              ka == FindParticipant(eventParticipants', m.eventId, userId)
              eta == handlers'[h].eta
          IN /\ ka # None
             /\ LET after == eventParticipants'[Val(ka)]
                IN /\ after.lastLat = Some(m.lat)
                   /\ after.lastLng = Some(m.lng)
                   /\ after.lastLocationAt = Some(now)
                   /\ after.isMoving = handlers'[h].isMoving
                   /\ eta > 0 => after.estimatedArrival = Some(now + eta * 60)
                   /\ (eta = 0 /\ kb # None)
                        => after.estimatedArrival =
                             eventParticipants[Val(kb)].estimatedArrival]_vars

\* A step of message handling: a message is dispatched or a handler resumes.
HandlesMessage == handlers' # handlers

\* C29: only a new connection and a close change the registry: every step
\* that handles a location_update, participant_joined, participant_left,
\* ping or any other inbound message leaves both maps as they were; the
\* eventId a connection was bound to at the handshake never changes; and a
\* connection whose participant_left was handled is still in its room while
\* it has not closed.
C29_RegistryFrame ==
  /\ [][HandlesMessage => UNCHANGED registryVars]_vars
  /\ [][registryVars' # registryVars
          => \/ Len(ws') = Len(ws) + 1
             \/ \E c \in Sockets : ws[c].readyState # "CLOSED"
                                   /\ ws'[c].readyState = "CLOSED"]_vars
  /\ [][\A c \in Sockets : ws'[c].eventId = ws[c].eventId
                           /\ ws'[c].userId = ws[c].userId]_vars
  /\ [](\A h \in HandlerIds :
          (handlers[h].pc = "done" /\ ws[handlers[h].ws].readyState = "OPEN"
             /\ ws[handlers[h].ws].eventId # Null)
          => /\ ws[handlers[h].ws].eventId \in DOMAIN eventConnections
             /\ handlers[h].ws \in eventConnections[ws[handlers[h].ws].eventId])

\* The participant_left of an open connection bound to E1 was handled and
\* broadcast, and the connection is still in the room of E1.
C29_Witness ==
  \E h \in HandlerIds :
    /\ handlers[h].msg.type = "participant_left"
    /\ handlers[h].outcome = "broadcast"
    /\ ws[handlers[h].ws].readyState = "OPEN"
    /\ EventE \in DOMAIN eventConnections
    /\ handlers[h].ws \in eventConnections[EventE]

\* The participants of the roster with a recorded position.
Recorded == {i \in 1..Len(Roster) : Roster[i].lastLat # None /\ Roster[i].lastLng # None}

\* C30: a finished refresh cycle has classified every participant without a
\* recorded position as far with no gateway call, and has issued exactly one
\* gateway call for each participant with a recorded position, one after
\* another.
C30_OneCallPerPosition ==
  \A r \in PageRuns :
    /\ page.runs[r].calls <= page.runs[r].i
    /\ page.runs[r].pc = "done"
         => /\ page.runs[r].calls = Cardinality(Recorded)
            /\ Len(page.runs[r].updatedParticipants) = Len(Roster)
            /\ \A i \in 1..Len(Roster) \ Recorded :
                 page.runs[r].updatedParticipants[i].googleETA = None

\* The step in which the ping of invocation h is received.
PingReceived(h) ==
  /\ h = Len(handlers) + 1
  /\ Len(handlers') = h
  /\ handlers'[h].msg.type = "ping"
  /\ handlers'[h].msg.raw = "object"

PongsOf(c, h) == {i \in 1..Len(sent[c]) : sent[c][i].of = h /\ sent[c][i].type = "pong"}

\* C31: the step that receives a ping on an open connection appends one pong
\* to that connection and nothing to any other, finishes the invocation, and
\* changes no participant row, no event and no registry entry; no connection
\* ever holds another message caused by that ping.
C31_PingPong ==
  /\ [][\A h \in 1..(Len(handlers) + 1) :
          PingReceived(h)
          => LET c == handlers'[h].ws
             IN /\ sent'[c] = Append(sent[c], Out("pong", Null, Null, h))
                /\ \A d \in Sockets \ {c} : sent'[d] = sent[d]
                /\ handlers'[h].pc = "done"
                /\ UNCHANGED <<storageVars, registryVars, ws>>]_vars
  /\ [](\A h \in HandlerIds :
          handlers[h].msg.type = "ping"
          => \A c \in Sockets :
               /\ \A i \in 1..Len(sent[c]) : sent[c][i].of = h => sent[c][i].type = "pong"
               /\ Cardinality(PongsOf(c, h)) = IF c = handlers[h].ws THEN 1 ELSE 0)

\* A pinged while another connection of A and a connection of B were open
\* in the same room: only the pinging connection holds the pong.
C31_Witness ==
  \E h \in HandlerIds : \E b, d \in Sockets :
    /\ handlers[h].msg.type = "ping"
    /\ b # d /\ b # handlers[h].ws /\ d # handlers[h].ws
    /\ ws[handlers[h].ws].userId = "A" /\ ws[b].userId = "A" /\ ws[d].userId = "B"
    /\ ws[b].readyState = "OPEN" /\ ws[d].readyState = "OPEN"
    /\ ws[b].eventId = EventE /\ ws[d].eventId = EventE
    /\ PongsOf(handlers[h].ws, h) # {}
    /\ PongsOf(b, h) = {} /\ PongsOf(d, h) = {}

\* A participant_left of user u for event E1 has been handled.
LeftHandled(u) ==
  \E h \in HandlerIds :
    /\ handlers[h].msg.type = "participant_left"
    /\ handlers[h].pc = "done" /\ handlers[h].outcome = "broadcast"
    /\ Sender(h) = u

\* This step belongs to the handling of a participant_joined of user u.
JoinStep(u) ==
  \E h \in 1..Len(handlers') :
    /\ handlers'[h].msg.type = "participant_joined"
    /\ ws[handlers'[h].ws].userId = u
    /\ (h > Len(handlers) \/ handlers'[h] # handlers[h])

\* C32: the step that finishes a participant_left of user U delivers one
\* participant_left to every open connection of the event's room that
\* belongs to another user; and once it has been handled, a row for (E, U)
\* appears again only through a participant_joined of U, also when a
\* location_update of U was in flight at the time of the leave.
C32_LeaveDurable ==
  /\ [][\A h \in HandlerIds :
          (handlers[h].pc = "left" /\ handlers'[h].pc = "done")
          => Delivers("participant_left", handlers[h].msg.eventId, Sender(h))]_vars
  /\ [][\A u \in Users :
          (/\ LeftHandled(u)
           /\ FindParticipant(eventParticipants, EventE, u) = None
           /\ FindParticipant(eventParticipants', EventE, u) # None)
          => JoinStep(u)]_vars

\* SpecDelete: connections to the room of E1 or to no room, and DELETE
\* requests for E1 and for an event that does not exist, by either user,
\* their handlers interleaved at every await.
NextDelete ==
  \/ \E t \in UserTokens, e \in UrlEventIds :
       Len(ws) < MaxDeleteSockets /\ HandleUpgrade(t, e)
  \/ \E id \in {EventE, "E2"}, u \in Users :
       Len(requests) < MaxDeleteRequests /\ DeleteRequest(id, u)
  \/ \E q \in 1..MaxDeleteRequests : DeleteResumes(q)

SpecDelete == Init /\ [][NextDelete]_vars

EventDeletedOf(c, id) ==
  {i \in 1..Len(sent[c]) : sent[c][i].type = "event_deleted" /\ sent[c][i].eventId = id}

\* C33: the deletion of E1 by its creator is followed by one event_deleted
\* to every open connection of the room, the creator's included, so that no
\* connection ever holds two; a request of a non-creator, or for an event
\* that does not exist when the request is made or handled, deletes nothing
\* and broadcasts nothing.
C33_DeleteFanOut ==
  /\ [][\A q \in DOMAIN requests :
          (requests[q].pc = "deleted" /\ requests'[q].pc = "done")
          => Delivers("event_deleted", requests[q].id, Null)]_vars
  /\ [](\A c \in Sockets : \A id \in {EventE, "E2"} :
          Cardinality(EventDeletedOf(c, id)) <= 1)
  /\ [][\A q \in DOMAIN requests :
          (requests[q].pc # "done" /\ requests'[q].pc = "done"
             /\ requests'[q].status # 200)
          => UNCHANGED <<events, eventParticipants, sent>>]_vars
  /\ [](\A p, q \in DOMAIN requests :
          (p # q /\ requests[p].id = requests[q].id)
          => ~(requests[p].status = 200 /\ requests[q].status = 200))

BroadcastTypes == {"eta_updated", "participant_joined", "participant_left"}

\* The rows of the users other than u, in order.
RowsOfOthers(rows, u) == SelectSeq(rows, LAMBDA r : r.userId # u)

\* C34: every eta_updated, participant_joined and participant_left that an
\* inbound message caused names the user authenticated at the sender's
\* handshake as participant, whatever identity the payload carries, and a
\* step of the handling of a message changes no row of another user.
C34_SenderIdentity ==
  /\ [](\A c \in Sockets : \A i \in 1..Len(sent[c]) :
          (sent[c][i].type \in BroadcastTypes /\ sent[c][i].of \in HandlerIds)
          => sent[c][i].participantId = Sender(sent[c][i].of))
  /\ [][\A h \in 1..Len(handlers') :
          (h > Len(handlers) \/ handlers'[h] # handlers[h])
          => LET u == ws[handlers'[h].ws].userId
             IN RowsOfOthers(eventParticipants', u) = RowsOfOthers(eventParticipants, u)]_vars

\* B joined over the channel; then A, whose payload names B, left: B's
\* connection holds a participant_left naming A, A's row is gone and B's
\* row is still there.
C34_Witness ==
  \E h \in HandlerIds : \E b \in Sockets :
    /\ handlers[h].msg.type = "participant_left"
    /\ handlers[h].msg.claimedId = "B"
    /\ Sender(h) = "A"
    /\ handlers[h].outcome = "broadcast"
    /\ ws[b].userId = "B"
    /\ \E i \in 1..Len(sent[b]) : sent[b][i].type = "participant_left"
                                  /\ sent[b][i].of = h
                                  /\ sent[b][i].participantId = "A"
    /\ FindParticipant(eventParticipants, EventE, "A") = None
    /\ FindParticipant(eventParticipants, EventE, "B") # None

\* The event that the connection of invocation h was bound to at its handshake.
BoundEvent(h) == ws[handlers[h].ws].eventId

\* C35: a message from a connection bound to an event at its handshake
\* causes broadcasts only to connections bound to the same event, and its
\* handling changes participant rows only when the event it names is the
\* bound one.
C35_RoomConfinement ==
  /\ [](\A c \in Sockets : \A i \in 1..Len(sent[c]) :
          (/\ sent[c][i].type \in BroadcastTypes
           /\ sent[c][i].of \in HandlerIds
           /\ BoundEvent(sent[c][i].of) # Null)
          => ws[c].eventId = BoundEvent(sent[c][i].of))
  /\ [][\A h \in 1..Len(handlers') :
          (/\ h > Len(handlers) \/ handlers'[h] # handlers[h]
           /\ ws[handlers'[h].ws].eventId # Null
           /\ eventParticipants' # eventParticipants)
          => handlers'[h].msg.eventId = ws[handlers'[h].ws].eventId]_vars

\* C36: the step that persists a location update stores, as distanceToEvent
\* of the sender's row, the distance that the eta_updated of that update
\* then reports, also when that distance is 0 and when the event has no
\* coordinates.
C36_DistanceAgrees ==
  /\ [][\A h \in HandlerIds :
          (handlers[h].pc # "updated" /\ handlers'[h].pc = "updated")
          => LET k == FindParticipant(eventParticipants', handlers[h].msg.eventId,
                                      ws[handlers[h].ws].userId)
             IN /\ k # None
                /\ eventParticipants'[Val(k)].distanceToEvent =
                     Some(handlers'[h].distance)]_vars
  /\ [](\A c \in Sockets : \A h \in HandlerIds : \A i \in EtaUpdatesOf(c, h) :
          sent[c][i].distance = handlers[h].distance)

\* C37: the two registry maps agree with the sockets in every reachable
\* state: a connection in the by-event set of E carries eventId E and is in
\* the by-user set of its own userId; a connection is in at most one by-event
\* set and at most one by-user set, and in exactly one by-user set, that of
\* its user, from its admission to its 'close' event; a connection without an
\* eventId is in no by-event set.
C37_RegistryConsistent ==
  \A c \in Sockets :
    /\ \A e \in DOMAIN eventConnections :
         c \in eventConnections[e]
         => /\ ws[c].eventId = e
            /\ ws[c].userId \in DOMAIN connections
            /\ c \in connections[ws[c].userId]
    /\ Cardinality({e \in DOMAIN eventConnections : c \in eventConnections[e]}) <= 1
    /\ Cardinality({u \in DOMAIN connections : c \in connections[u]}) <= 1
    /\ (ws[c].rejection = Null /\ ws[c].readyState \in {"OPEN", "CLOSING"})
       => {u \in DOMAIN connections : c \in connections[u]} = {ws[c].userId}
    /\ ws[c].eventId = Null => c \notin InByEvent
    /\ ws[c].readyState \in {"CLOSED", "REFUSED"} => c \notin Registered

\* One connection is registered in room E2 while another, which was in room
\* E1, has closed and left both maps.
C37_Witness ==
  \E c1, c2 \in Sockets :
    /\ c1 # c2
    /\ ws[c1].readyState = "OPEN" /\ ws[c1].eventId = "E2"
    /\ c1 \in eventConnections["E2"]
    /\ ws[c2].rejection = Null /\ ws[c2].readyState = "CLOSED"
    /\ ws[c2].eventId = EventE /\ c2 \notin Registered

\* The sockets of the hook that are connecting or open.
LiveSockets == {s \in ClientSockets : hook.sockets[s] \in {"CONNECTING", "OPEN"}}

\* C38: in every reachable state at most one socket of the hook is
\* connecting or open, and isConnected holds only while the hook's socket is
\* open.
C38_SingleSocket ==
  /\ Cardinality(LiveSockets) <= 1
  /\ hook.isConnected => \E s \in ClientSockets : hook.sockets[s] = "OPEN"

\* Socket s, the hook's current socket, closes in this step without close()
\* having been called on it.
UnexpectedClose(s) ==
  /\ hook.wsRef = Some(s)
  /\ hook.sockets[s] \in {"CONNECTING", "OPEN"}
  /\ hook'.sockets[s] = "CLOSED"

\* C39: once the hook has reconnected for a change of eventId, an unexpected
\* close of its current socket, opened or not, schedules a reconnect while
\* fewer than reconnectAttempts attempts are counted.
C39_ReconnectAfterEventChange ==
  [][\A s \in ClientSockets :
       (/\ hook.eventIdChanges > 0
        /\ hook.cleanups = 0
        /\ UnexpectedClose(s)
        /\ hook.reconnectCountRef < reconnectAttempts)
       => SchedulesReconnect]_vars

\* C40: from a call of disconnect() until the next call of connect() no
\* reconnect timer is pending, the status is "disconnected", the reconnect
\* counter is 0, and no step schedules a reconnect.
C40_DisconnectFinal ==
  /\ [](hook.disconnectCalled
        => /\ PendingReconnects = {}
           /\ hook.connectionStatus = "disconnected"
           /\ hook.reconnectCountRef = 0)
  /\ [][hook.disconnectCalled => ~SchedulesReconnect]_vars

====
